---- MODULE Spec2Model ----
(***************************************************************************)
(* Media & Analytics micro-service (server/index.js) and, in the browser,  *)
(* the PerAnkhAuth utility and the Header component.                       *)
(*                                                                         *)
(* SpecMedia : POST / DELETE / GET /api/media as interleaved requests,     *)
(*             each an await-separated sequence of steps over the media    *)
(*             catalog document and the upload directory.                  *)
(* SpecTrack : POST /api/analytics/track as interleaved requests over the  *)
(*             analytics document (read, push, write; any step may throw). *)
(* SpecQuery : the six analytics query routes answering over a stored     *)
(*             event log drawn from LogPool, one query per log.           *)
(* SpecAggregate : the same routes over the logs of AggregateLogs, chosen *)
(*             to exercise bounce rate, ranking, classes and realtime.     *)
(* SpecRateLimit : checkRateLimit and recordLoginAttempt called on two     *)
(*             identifiers around the 15 minutes of the lockout.           *)
(* SpecLogin : authenticate as the login form calls it, with well-formed   *)
(*             and ill-formed identifiers and passwords.                   *)
(* SpecSession : login, logout, reload and the session checks around the   *)
(*             8 hours of the session timeout.                             *)
(* SpecHeader : the Header attached, updated and destroyed while           *)
(*             authStatusChanged events are dispatched on document.        *)
(*                                                                         *)
(* Strings the code inspects character by character (file names, paths)   *)
(* are sequences of one-character strings.  Time is counted in hours      *)
(* (one day of 864e5 ms is DayMs = 24 ticks) on the server and in minutes *)
(* in the browser.                                                         *)
(***************************************************************************)
EXTENDS Integers, Sequences, FiniteSets, TLC

\* ------------------------------------------------------------------ bounds
\* request slots that may be in flight at once
MaxReq == 2
\* the media clock runs over 0..MaxClock
MaxClock == 1
\* Math.round(Math.random() * 1e6) is drawn from 0..MaxRand
MaxRand == 1
\* uuid() is called at most MaxIds times
MaxIds == 3
\* files per upload request
MaxBatch == 2
\* requests served in one run
MaxStarts == 3
\* track request slots that may be in flight at once
MaxTrackReq == 2
\* track requests served in one run
MaxTracks == 2
\* events of a stored log that are drawn freely
MaxLog == 2
\* Date.now(), in the specification's time unit, when the stored log is
\* queried and when the browser tab is opened
Now0 == 10000
\* failed attempts recorded, and authenticate calls rejected, per identifier
MaxAttempts == 6
\* encryption keys a tab generates
MaxKeys == 2
\* minutes past a lockout or a session expiry at which the browser clock
\* is read last
MaxSlack == 1
\* authStatusChanged listeners registered on document
MaxListeners == 3

\* ------------------------------------------------------------ characters
Lower == <<"a","b","c","d","e","f","g","h","i","j","k","l","m",
           "n","o","p","q","r","s","t","u","v","w","x","y","z">>
Upper == <<"A","B","C","D","E","F","G","H","I","J","K","L","M",
           "N","O","P","Q","R","S","T","U","V","W","X","Y","Z">>
Digits == {"0","1","2","3","4","5","6","7","8","9"}

Range(s) == {s[i] : i \in DOMAIN s}

\* the character class [A-Za-z0-9._-] of the filename callback
SafeChars == Range(Lower) \cup Range(Upper) \cup Digits \cup {".", "_", "-"}

\* file.originalname.replace(/[^A-Za-z0-9._-]/g, '_')
SafeName(originalname) ==
    [i \in DOMAIN originalname |->
        IF originalname[i] \in SafeChars THEN originalname[i] ELSE "_"]

\* `${Date.now()}-${Math.round(Math.random() * 1e6)}-${safeName}`
UniqueName(t, rnd, originalname) == <<t, rnd, SafeName(originalname)>>

\* original file names a client may send
NamePool == { <<"a", " ">>, <<"a", "_">> }

\* ------------------------------------------------------------------ state
VARIABLES
    now,        \* the latest reading of Date.now()
    mediaDb,    \* the document at MEDIA_DB_PATH: a sequence of records
    disk,       \* the stored names of the files in UPLOAD_DIR
    nextId,     \* number of uuid() calls made so far
    started,    \* number of media requests received so far
    req,        \* the media request slots
    events,     \* the events array of the document at ANALYTICS_DB_PATH
    tracked,    \* number of track requests received so far
    treq,       \* the track request slots
    qry,        \* the analytics query answered last
    attempts,   \* localStorage: the login_attempts_<identifier> items
    storage,    \* localStorage perankh_session and the tab's sessionStorage
    auth,       \* the PerAnkhAuth instance: its key, its authenticate call in flight
    out,        \* the outcome of the latest call on the auth instance
    hist,       \* history: attempts recorded and calls rejected per identifier
    listeners,  \* document's authStatusChanged listeners
    header      \* the Header instance

vars == <<now, mediaDb, disk, nextId, started, req, events, tracked, treq, qry,
          attempts, storage, auth, out, hist, listeners, header>>
analyticsVars == <<events, tracked, treq, qry>>
mediaVars == <<mediaDb, disk, started, req>>
serverVars == <<mediaVars, nextId, analyticsVars>>
browserVars == <<attempts, storage, auth, out, hist, listeners, header>>

Req == 1..MaxReq

NoResp == [status |-> 0, body |-> <<>>]

IdleReq == [kind |-> "idle", pc |-> "idle", files |-> <<>>, stored |-> <<>>,
            id |-> 0, items |-> <<>>, saved |-> <<>>, item |-> <<>>,
            resp |-> NoResp,
            \* history: the catalog the request read, and whether any other
            \* POST or DELETE has taken a step since it began
            \* and whether fs.remove removed the file
            db0 |-> <<>>, solo |-> TRUE, removed |-> FALSE]

\* A slot is free before its first request and once its response is sent; a
\* new request takes the lowest free slot.
Free(r) ==
    /\ req[r].pc \in {"idle", "done"}
    /\ \A s \in Req : s < r => req[s].pc \notin {"idle", "done"}

\* Every step of POST/DELETE request r ends the solitude of the other slots.
Disturb(r, rq) == [s \in Req |-> IF s = r THEN rq ELSE [req[s] EXCEPT !.solo = FALSE]]

\* --------------------------------------------------------------- helpers
\* items.findIndex((m) => m.id === id); 0 stands for -1
FindIndex(items, id) ==
    IF \E i \in DOMAIN items : items[i].id = id
    THEN CHOOSE i \in DOMAIN items :
            /\ items[i].id = id
            /\ \A j \in DOMAIN items : items[j].id = id => i <= j
    ELSE 0

\* items.splice(idx): the delete count forgotten, the tail goes too
SpliceTail(items, idx) == SubSeq(items, 1, idx - 1)

\* items.splice(idx, 1)
Splice(items, idx) ==
    [i \in 1..(Len(items) - 1) |-> IF i < idx THEN items[i] ELSE items[i + 1]]

\* the record built in files.map for file number i of the request
Record(id, originalname, filename) ==
    [id |-> id, name |-> originalname, storedName |-> filename,
     url |-> <<"/uploads/media/", filename>>]

\* files.map((f) => { ... items.push(record); return record; })
SavedRecords(files, stored, firstId) ==
    [i \in DOMAIN files |-> Record(firstId + i, files[i], stored[i])]

\* files of the uploads in flight, whose records are still to be created
RECURSIVE PendingFiles(_)
PendingFiles(n) ==
    IF n = 0 THEN 0
    ELSE PendingFiles(n - 1) +
         (IF req[n].kind = "post" /\ req[n].pc \in {"upload", "write"}
          THEN Len(req[n].files) ELSE 0)

\* ------------------------------------------------------ POST /api/media
\* A request arrives with 0..MaxBatch files (field "files").
PostBegin(r) ==
    /\ Free(r)
    /\ started < MaxStarts
    /\ started' = started + 1
    /\ \E n \in 0..MaxBatch : \E files \in [1..n -> NamePool] :
         /\ nextId + PendingFiles(MaxReq) + n <= MaxIds
         /\ req' = [req EXCEPT ![r] =
                [IdleReq EXCEPT !.kind = "post", !.pc = "upload", !.files = files]]
    /\ UNCHANGED <<now, mediaDb, disk, nextId>>
    /\ UNCHANGED <<analyticsVars, browserVars>>

\* upload.array('files', 20): multer stores the next file under the name the
\* filename callback returns (an existing file of that name is overwritten).
\* Date.now() reads a clock that never runs backwards: t is the reading.
StoreFile(r) ==
    /\ req[r].pc = "upload"
    /\ Len(req[r].stored) < Len(req[r].files)
    /\ \E t \in now..MaxClock, rnd \in 0..MaxRand :
         LET f == req[r].files[Len(req[r].stored) + 1]
             unique == UniqueName(t, rnd, f)
         IN /\ now' = t
            /\ disk' = disk \cup {unique}
            /\ req' = Disturb(r, [req[r] EXCEPT !.stored = Append(@, unique)])
    /\ UNCHANGED <<mediaDb, nextId, started>>
    /\ UNCHANGED <<analyticsVars, browserVars>>

\* the handler starts: no files -> 400; else items = await readMediaDb()
PostRead(r) ==
    /\ req[r].pc = "upload"
    /\ Len(req[r].stored) = Len(req[r].files)
    /\ IF Len(req[r].files) = 0
       THEN req' = Disturb(r, [req[r] EXCEPT !.pc = "done",
                     !.resp = [status |-> 400, body |-> <<"No files uploaded">>],
                     !.db0 = mediaDb])
       ELSE req' = Disturb(r, [req[r] EXCEPT !.pc = "write", !.items = mediaDb,
                     !.db0 = mediaDb])
    /\ UNCHANGED <<now, mediaDb, disk, nextId, started>>
    /\ UNCHANGED <<analyticsVars, browserVars>>

\* await writeMediaDb(saved): the records read are not written back
PostWriteSavedOnly(r) ==
    /\ req[r].kind = "post"
    /\ req[r].pc = "write"
    /\ LET saved == SavedRecords(req[r].files, req[r].stored, nextId)
       IN /\ mediaDb' = saved
          /\ nextId' = nextId + Len(saved)
          /\ req' = Disturb(r, [req[r] EXCEPT !.pc = "done", !.saved = saved,
                        !.resp = [status |-> 200, body |-> saved]])
    /\ UNCHANGED <<now, disk, started>>
    /\ UNCHANGED <<analyticsVars, browserVars>>

\* res.json(saved) with the catalog write left for later
PostWriteRespondFirst(r) ==
    /\ req[r].kind = "post"
    /\ req[r].pc = "write"
    /\ LET saved == SavedRecords(req[r].files, req[r].stored, nextId)
       IN /\ mediaDb' = mediaDb
          /\ nextId' = nextId + Len(saved)
          /\ req' = Disturb(r, [req[r] EXCEPT !.pc = "done", !.saved = saved,
                        !.resp = [status |-> 200, body |-> saved]])
    /\ UNCHANGED <<now, disk, started>>
    /\ UNCHANGED <<analyticsVars, browserVars>>

\* files.map(...) ; await writeMediaDb(items) ; res.json(saved)
PostWrite(r) ==
    /\ req[r].kind = "post"
    /\ req[r].pc = "write"
    /\ LET saved == SavedRecords(req[r].files, req[r].stored, nextId)
           items == req[r].items \o saved
       IN /\ mediaDb' = items
          /\ nextId' = nextId + Len(saved)
          /\ req' = Disturb(r, [req[r] EXCEPT !.pc = "done", !.saved = saved,
                        !.resp = [status |-> 200, body |-> saved]])
    /\ UNCHANGED <<now, disk, started>>
    /\ UNCHANGED <<analyticsVars, browserVars>>

\* ------------------------------------------------ DELETE /api/media/:id
DeleteBegin(r) ==
    /\ Free(r)
    /\ started < MaxStarts
    /\ started' = started + 1
    /\ \E id \in 1..MaxIds :
         req' = [req EXCEPT ![r] =
                    [IdleReq EXCEPT !.kind = "delete", !.pc = "read", !.id = id]]
    /\ UNCHANGED <<now, mediaDb, disk, nextId>>
    /\ UNCHANGED <<analyticsVars, browserVars>>

\* return res.json({ error: 'Not found' }): the status(404) forgotten
DeleteReadNoStatus(r) ==
    /\ req[r].kind = "delete"
    /\ req[r].pc = "read"
    /\ LET items == mediaDb
           idx == FindIndex(items, req[r].id)
       IN IF idx = 0
          THEN req' = Disturb(r, [req[r] EXCEPT !.pc = "done",
                        !.resp = [status |-> 200, body |-> <<"Not found">>],
                        !.db0 = mediaDb])
          ELSE req' = Disturb(r, [req[r] EXCEPT !.pc = "write",
                        !.item = <<items[idx]>>,
                        !.items = Splice(items, idx),
                        !.db0 = mediaDb])
    /\ UNCHANGED <<now, mediaDb, disk, nextId, started>>
    /\ UNCHANGED <<analyticsVars, browserVars>>

\* items = await readMediaDb(); findIndex; 404 or splice
DeleteRead(r) ==
    /\ req[r].kind = "delete"
    /\ req[r].pc = "read"
    /\ LET items == mediaDb
           idx == FindIndex(items, req[r].id)
       IN IF idx = 0
          THEN req' = Disturb(r, [req[r] EXCEPT !.pc = "done",
                        !.resp = [status |-> 404, body |-> <<"Not found">>],
                        !.db0 = mediaDb])
          ELSE req' = Disturb(r, [req[r] EXCEPT !.pc = "write",
                        !.item = <<items[idx]>>,
                        !.items = Splice(items, idx),
                        !.db0 = mediaDb])
    /\ UNCHANGED <<now, mediaDb, disk, nextId, started>>
    /\ UNCHANGED <<analyticsVars, browserVars>>

\* a DELETE that reads the catalog again before writing it
DeleteWriteFresh(r) ==
    /\ req[r].kind = "delete"
    /\ req[r].pc = "write"
    /\ mediaDb' = SelectSeq(mediaDb, LAMBDA m : m.id # req[r].id)
    /\ req' = Disturb(r, [req[r] EXCEPT !.pc = "remove"])
    /\ UNCHANGED <<now, disk, nextId, started>>
    /\ UNCHANGED <<analyticsVars, browserVars>>

\* await writeMediaDb(items)
DeleteWrite(r) ==
    /\ req[r].kind = "delete"
    /\ req[r].pc = "write"
    /\ mediaDb' = req[r].items
    /\ req' = Disturb(r, [req[r] EXCEPT !.pc = "remove"])
    /\ UNCHANGED <<now, disk, nextId, started>>
    /\ UNCHANGED <<analyticsVars, browserVars>>

\* try { await fs.remove(path.join(UPLOAD_DIR, item.storedName)) } catch {}
\* res.json({ ok: true })   -- a failed removal is swallowed, the file stays
DeleteRemove(r) ==
    /\ req[r].kind = "delete"
    /\ req[r].pc = "remove"
    /\ \E removed \in BOOLEAN :
         /\ disk' = IF removed THEN disk \ {req[r].item[1].storedName} ELSE disk
         /\ req' = Disturb(r, [req[r] EXCEPT !.pc = "done", !.removed = removed,
                       !.resp = [status |-> 200, body |-> <<"ok">>]])
    /\ UNCHANGED <<now, mediaDb, nextId, started>>
    /\ UNCHANGED <<analyticsVars, browserVars>>

\* --------------------------------------------------- GET /api/media
\* items = await readMediaDb(); res.json(items)   (served from any free slot)
GetMedia(r) ==
    /\ req[r].pc \in {"idle", "done"}
    /\ started < MaxStarts
    /\ started' = started + 1
    /\ req' = [req EXCEPT ![r] =
            [IdleReq EXCEPT !.kind = "get", !.pc = "done", !.items = mediaDb,
                            !.db0 = mediaDb,
                            !.resp = [status |-> 200, body |-> mediaDb]]]
    /\ UNCHANGED <<now, mediaDb, disk, nextId>>
    /\ UNCHANGED <<analyticsVars, browserVars>>

\* ======================================================= analytics
\* JavaScript's undefined and null, as values no string equals
Undefined == <<"#undefined">>
Null == <<"#null">>

\* a value in boolean position (for the values the model uses)
Truthy(v) == v \notin {Undefined, Null, <<>>}

\* String.prototype.toLowerCase, character by character
LowerChar(c) ==
    IF \E i \in DOMAIN Upper : Upper[i] = c
    THEN Lower[CHOOSE i \in DOMAIN Upper : Upper[i] = c]
    ELSE c
ToLowerCase(v) == [i \in DOMAIN v |-> LowerChar(v[i])]

\* String.prototype.startsWith / includes
StartsWith(v, prefix) ==
    /\ Len(prefix) <= Len(v)
    /\ SubSeq(v, 1, Len(prefix)) = prefix
Includes(v, part) ==
    \E k \in 0..(Len(v) - Len(part)) : SubSeq(v, k + 1, k + Len(part)) = part

\* isAdminPath without toLowerCase()
IsAdminPathCaseSensitive(p) ==
    LET v == IF p = Undefined THEN <<>> ELSE p
    IN \/ StartsWith(v, <<"/", "a", "d", "m", "i", "n">>)
       \/ Includes(v, <<"a", "d", "m", "i", "n", "-">>)

\* function isAdminPath(p = '')
IsAdminPath(p) ==
    LET v == ToLowerCase(IF p = Undefined THEN <<>> ELSE p)
    IN \/ StartsWith(v, <<"/", "a", "d", "m", "i", "n">>)
       \/ Includes(v, <<"a", "d", "m", "i", "n", "-">>)

\* paths a client may report
PRoot == <<"/">>
PHome == <<"/", "h">>
PAdmin == <<"/", "a", "d", "m", "i", "n">>
PAdminUpper == <<"/", "A", "d", "m", "i", "n", "/", "x">>
PAdminDash == <<"/", "x", "/", "A", "D", "M", "I", "N", "-", "d">>
PNotAdmin == <<"/", "x", "/", "a", "d", "m", "i", "n">>

\* what a client may send as body.path, body.page, body.type, body.sessionId
PathInputs == {Undefined, Null, <<>>, PRoot, PHome, PAdmin, PAdminUpper,
               PAdminDash, PNotAdmin}
PageInputs == {Undefined, PHome, PAdmin}
TypeInputs == {Undefined, <<"c", "l", "i", "c", "k">>}
SessionInputs == {Undefined, <<"s", 1>>}

TReq == 1..MaxTrackReq

NoTrackResp == [status |-> 0, ok |-> FALSE, ignored |-> FALSE, eventId |-> 0,
                error |-> ""]
NoEvent == [id |-> 0, ts |-> 0, type |-> <<>>, path |-> <<>>, referrer |-> <<>>,
            device |-> <<>>, sessionId |-> <<>>]
NoBody == [type |-> Undefined, path |-> Undefined, page |-> Undefined,
           referrer |-> Undefined, device |-> Undefined, sessionId |-> Undefined]
IdleTrack == [pc |-> "idle", body |-> NoBody, event |-> NoEvent, db |-> <<>>,
              resp |-> NoTrackResp]
NoQuery == [endpoint |-> "", period |-> "", body |-> <<>>]

\* finalPath without the '/' default of the destructuring
FinalPathNoDefault(body) ==
    IF Truthy(body.path) THEN body.path
    ELSE IF Truthy(body.page) THEN body.page
    ELSE PRoot

\* const { type = 'pageview', path: pagePath = '/', ... } = req.body
\* const finalPath = pagePath || page || '/'
FinalPath(body) ==
    LET pagePath == IF body.path = Undefined THEN PRoot ELSE body.path
    IN IF Truthy(pagePath) THEN pagePath
       ELSE IF Truthy(body.page) THEN body.page
       ELSE PRoot

Pageview == <<"p", "a", "g", "e", "v", "i", "e", "w">>

\* an event stamped with the time left to the end of the clock
TrackEventCountdown(body, id, t) ==
    [id |-> id,
     ts |-> MaxClock - t,
     type |-> IF body.type = Undefined THEN Pageview ELSE body.type,
     path |-> FinalPath(body),
     referrer |-> IF Truthy(body.referrer) THEN body.referrer ELSE <<>>,
     device |-> IF Truthy(body.device) THEN body.device ELSE <<>>,
     sessionId |-> IF Truthy(body.sessionId) THEN body.sessionId
                   ELSE <<"uuid", id + 1>>]

\* the event object built by the handler; uuid() number id names the event
\* and number id + 1 a session the client did not name
TrackEvent(body, id, t) ==
    [id |-> id,
     ts |-> t,
     type |-> IF body.type = Undefined THEN Pageview ELSE body.type,
     path |-> FinalPath(body),
     referrer |-> IF Truthy(body.referrer) THEN body.referrer ELSE <<>>,
     device |-> IF Truthy(body.device) THEN body.device ELSE <<>>,
     sessionId |-> IF Truthy(body.sessionId) THEN body.sessionId
                   ELSE <<"uuid", id + 1>>]

TrackFree(r) ==
    /\ treq[r].pc \in {"idle", "done"}
    /\ \A s \in TReq : s < r => treq[s].pc \notin {"idle", "done"}

\* POST /api/analytics/track, up to the first await: an administrative path
\* is acknowledged and dropped, any other becomes an event stamped Date.now()
TrackBegin(r) ==
    /\ TrackFree(r)
    /\ tracked < MaxTracks
    /\ tracked' = tracked + 1
    /\ \E path \in PathInputs, page \in PageInputs, type \in TypeInputs,
          sessionId \in SessionInputs, t \in now..MaxClock :
         LET body == [NoBody EXCEPT !.path = path, !.page = page,
                                    !.type = type, !.sessionId = sessionId]
         IN IF IsAdminPath(FinalPath(body))
            THEN /\ treq' = [treq EXCEPT ![r] = [IdleTrack EXCEPT
                        !.pc = "done", !.body = body,
                        !.resp = [NoTrackResp EXCEPT !.status = 200,
                                     !.ok = TRUE, !.ignored = TRUE]]]
                 /\ UNCHANGED <<now, nextId>>
            ELSE /\ treq' = [treq EXCEPT ![r] = [IdleTrack EXCEPT
                        !.pc = "read", !.body = body,
                        !.event = TrackEvent(body, nextId + 1, t)]]
                 /\ now' = t
                 /\ nextId' = nextId + (IF Truthy(sessionId) THEN 1 ELSE 2)
    /\ UNCHANGED <<events, qry>>
    /\ UNCHANGED <<mediaVars, browserVars>>

\* a catch block that answers { ok: true } all the same
TrackFailedSilently(r) ==
    [treq EXCEPT ![r].pc = "done",
                 ![r].resp = [NoTrackResp EXCEPT !.status = 200, !.ok = TRUE]]

\* the catch block: res.status(500).json({ error: 'failed_to_track' })
TrackFailed(r) ==
    [treq EXCEPT ![r].pc = "done",
                 ![r].resp = [NoTrackResp EXCEPT !.status = 500,
                                 !.error = "failed_to_track"]]

\* const db = { events: [] }: the stored log is not read
TrackReadEmpty(r) ==
    /\ treq[r].pc = "read"
    /\ \E failed \in BOOLEAN :
         treq' = IF failed THEN TrackFailed(r)
                 ELSE [treq EXCEPT ![r].pc = "write", ![r].db = <<>>]
    /\ UNCHANGED <<now, nextId, events, tracked, qry>>
    /\ UNCHANGED <<mediaVars, browserVars>>

\* const db = await readAnalyticsDb()   -- or the read throws
TrackRead(r) ==
    /\ treq[r].pc = "read"
    /\ \E failed \in BOOLEAN :
         treq' = IF failed THEN TrackFailed(r)
                 ELSE [treq EXCEPT ![r].pc = "write", ![r].db = events]
    /\ UNCHANGED <<now, nextId, events, tracked, qry>>
    /\ UNCHANGED <<mediaVars, browserVars>>

\* await writeAnalyticsDb(db) with db.events.push(event) forgotten
TrackWriteNoPush(r) ==
    /\ treq[r].pc = "write"
    /\ \E failed \in BOOLEAN :
         IF failed
         THEN /\ treq' = TrackFailed(r)
              /\ UNCHANGED events
         ELSE /\ events' = treq[r].db
              /\ treq' = [treq EXCEPT ![r].pc = "done",
                            ![r].resp = [NoTrackResp EXCEPT !.status = 200,
                                !.ok = TRUE, !.eventId = treq[r].event.id]]
    /\ UNCHANGED <<now, nextId, tracked, qry>>
    /\ UNCHANGED <<mediaVars, browserVars>>

\* db.events.push(event); await writeAnalyticsDb(db); res.json({ ok, eventId })
\* -- or the write throws and leaves the document as it was
TrackWrite(r) ==
    /\ treq[r].pc = "write"
    /\ \E failed \in BOOLEAN :
         IF failed
         THEN /\ treq' = TrackFailed(r)
              /\ UNCHANGED events
         ELSE /\ events' = Append(treq[r].db, treq[r].event)
              /\ treq' = [treq EXCEPT ![r].pc = "done",
                            ![r].resp = [NoTrackResp EXCEPT !.status = 200,
                                !.ok = TRUE, !.eventId = treq[r].event.id]]
    /\ UNCHANGED <<now, nextId, tracked, qry>>
    /\ UNCHANGED <<mediaVars, browserVars>>

\* ------------------------------------------------------- aggregation
\* 864e5 ms, one day, on the model's clock of hours
DayMs == 24
\* the value JavaScript computes for Date.now() minus a non-number
NaN == -1

\* the period tokens of the window map of filterEvents
WindowMap == ("1d" :> DayMs) @@ ("7d" :> 7 * DayMs) @@ ("30d" :> 30 * DayMs)
             @@ ("90d" :> 90 * DayMs) @@ ("1y" :> 365 * DayMs)
\* the bucket counts of the days map of the timeseries route
DaysMap == ("7d" :> 7) @@ ("30d" :> 30) @@ ("90d" :> 12) @@ ("1y" :> 12)

\* names every object literal inherits from Object.prototype: map[name] is a
\* function (or, for __proto__, an object), which is truthy and no number
ProtoKeys == {"toString", "constructor", "valueOf", "hasOwnProperty", "__proto__"}

\* req.query.period when the query string has no period
NoPeriod == "#undefined"

\* const period = req.query.period || '7d'
PeriodOf(q) == IF q \in {NoPeriod, ""} THEN "7d" ELSE q

\* const windowMs = map[period] || map['7d']
WindowMs(period) ==
    IF period \in DOMAIN WindowMap THEN WindowMap[period]
    ELSE IF period \in ProtoKeys THEN NaN
    ELSE WindowMap["7d"]

\* filterEvents without the e.ts >= from test
FilterEventsNoWindow(evs, period, t) ==
    LET Keep(e) == ~ IsAdminPath(e.path) IN SelectSeq(evs, Keep)

\* function filterEvents(events, period); t is Date.now().  A comparison
\* with NaN is false.
FilterEvents(evs, period, t) ==
    LET windowMs == WindowMs(period)
        from == IF windowMs = NaN THEN NaN ELSE t - windowMs
        Keep(e) == from # NaN /\ e.ts >= from /\ ~ IsAdminPath(e.path)
    IN SelectSeq(evs, Keep)

\* a Map filled by evs.reduce((m, e) => m.set(key(e), (m.get(key(e)) || 0) + 1)):
\* its entries in insertion order, for the sequence of keys of the events
RECURSIVE Tally(_)
Tally(keys) ==
    IF keys = <<>> THEN <<>>
    ELSE LET prev == Tally(SubSeq(keys, 1, Len(keys) - 1))
             k == keys[Len(keys)]
         IN IF \E i \in DOMAIN prev : prev[i].key = k
            THEN LET i == CHOOSE i \in DOMAIN prev : prev[i].key = k
                 IN [prev EXCEPT ![i].count = @ + 1]
            ELSE Append(prev, [key |-> k, count |-> 1])

\* GET /api/analytics/summary; bounceRate is counted in tenths of a percent:
\* Math.round((bounces / sessions) * 1000) / 10
Summary(evs0, q, t) ==
    LET period == PeriodOf(q)
        evs == FilterEvents(evs0, period, t)
        pageviews == Len(evs)
        countsBySession == Tally([i \in DOMAIN evs |-> evs[i].sessionId])
        sessions == Cardinality({evs[i].sessionId : i \in DOMAIN evs})
        bounces == Cardinality({i \in DOMAIN countsBySession :
                                   countsBySession[i].count = 1})
        bounceRate == IF sessions # 0
                      THEN (2000 * bounces + sessions) \div (2 * sessions)
                      ELSE 0
    IN [visitors |-> sessions, pageViews |-> pageviews, avgSession |-> Null,
        bounceRate |-> bounceRate, newMembers |-> Null, mobileTraffic |-> Null]

\* new Date(ts).getHours() and .toDateString(): the hour of the day and the
\* calendar day of a timestamp (local time is taken to be UTC)
GetHours(ts) == ts % DayMs
DateOf(ts) == ts \div DayMs
\* toLocaleDateString(undefined, { month: 'short', day: 'numeric' }): the day
\* within its year
DayLabel(day) == <<"d", day % 365>>

\* a timeseries that buckets the events of the log without filtering them
TimeseriesUnfiltered(evs0, q, t) ==
    LET period == PeriodOf(q)
        evs == evs0
    IN IF period = "1d"
       THEN [labels |-> [i \in 1..24 |-> <<"h", i - 1>>],
             values |-> [i \in 1..24 |->
                 Cardinality({k \in DOMAIN evs : GetHours(evs[k].ts) = i - 1})]]
       ELSE LET count == IF period \in DOMAIN DaysMap THEN DaysMap[period]
                         ELSE IF period \in ProtoKeys THEN 0
                         ELSE 7
                key == [i \in 1..count |-> DateOf(t) - (count - i)]
            IN [labels |-> [i \in 1..count |-> DayLabel(key[i])],
                values |-> [i \in 1..count |->
                    Cardinality({k \in DOMAIN evs : DateOf(evs[k].ts) = key[i]})]]

\* GET /api/analytics/timeseries
Timeseries(evs0, q, t) ==
    LET period == PeriodOf(q)
        evs == FilterEvents(evs0, period, t)
    IN IF period = "1d"
       THEN [labels |-> [i \in 1..24 |-> <<"h", i - 1>>],
             values |-> [i \in 1..24 |->
                 Cardinality({k \in DOMAIN evs : GetHours(evs[k].ts) = i - 1})]]
       ELSE LET \* days[period] || 7; Array.from({ length: <no number> }) is []
                count == IF period \in DOMAIN DaysMap THEN DaysMap[period]
                         ELSE IF period \in ProtoKeys THEN 0
                         ELSE 7
                key == [i \in 1..count |-> DateOf(t) - (count - i)]
            IN [labels |-> [i \in 1..count |-> DayLabel(key[i])],
                values |-> [i \in 1..count |->
                    Cardinality({k \in DOMAIN evs : DateOf(evs[k].ts) = key[i]})]]

RECURSIVE SortByCountReversingTies(_)
\* a sort that puts an entry before the entries of equal count
SortByCountReversingTies(entries) ==
    IF entries = <<>> THEN <<>>
    ELSE LET rest == SortByCountReversingTies(SubSeq(entries, 1, Len(entries) - 1))
             x == entries[Len(entries)]
             n == Cardinality({i \in DOMAIN rest : rest[i].count > x.count})
         IN SubSeq(rest, 1, n) \o <<x>> \o SubSeq(rest, n + 1, Len(rest))

\* Array.prototype.sort((a, b) => b[1] - a[1]): stable, by decreasing count
RECURSIVE SortByCount(_)
SortByCount(entries) ==
    IF entries = <<>> THEN <<>>
    ELSE LET rest == SortByCount(SubSeq(entries, 1, Len(entries) - 1))
             x == entries[Len(entries)]
             \* x goes after every entry whose count is at least its own
             n == Cardinality({i \in DOMAIN rest : rest[i].count >= x.count})
         IN SubSeq(rest, 1, n) \o <<x>> \o SubSeq(rest, n + 1, Len(rest))

\* GET /api/analytics/top-pages
TopPages(evs0, q, t) ==
    LET evs == FilterEvents(evs0, PeriodOf(q), t)
        counts == Tally([i \in DOMAIN evs |-> evs[i].path])
        sorted == SortByCount(counts)
        top == SubSeq(sorted, 1, IF Len(sorted) < 10 THEN Len(sorted) ELSE 10)
    IN [i \in DOMAIN top |-> [path |-> top[i].key, count |-> top[i].count]]

\* the position of the first character of v that is in set cs, from position
\* k on; Len(v) + 1 if there is none
FirstOf(v, cs, k) ==
    IF \E i \in k..Len(v) : v[i] \in cs
    THEN CHOOSE i \in k..Len(v) :
            v[i] \in cs /\ \A j \in k..Len(v) : v[j] \in cs => i <= j
    ELSE Len(v) + 1

\* new URL(r).hostname for the referrers of the model: r must open with a
\* scheme of letters and a colon, or the constructor throws; after "//" the
\* host runs to the next "/", "?" or "#" and is lower-cased; an http(s) URL
\* with no host throws; a URL without "//" (mailto:) has the hostname "".
UrlScheme(r) == SubSeq(r, 1, FirstOf(r, {":"}, 1) - 1)
UrlParses(r) ==
    /\ FirstOf(r, {":"}, 1) <= Len(r)
    /\ UrlScheme(r) # <<>>
    /\ \A i \in DOMAIN UrlScheme(r) :
          UrlScheme(r)[i] \in Range(Lower) \cup Range(Upper)
    /\ LET c == FirstOf(r, {":"}, 1)
       IN (SubSeq(r, c + 1, c + 2) = <<"/", "/">>)
             => FirstOf(r, {"/", "?", "#"}, c + 3) > c + 3
Hostname(r) ==
    LET c == FirstOf(r, {":"}, 1)
    IN IF SubSeq(r, c + 1, c + 2) = <<"/", "/">>
       THEN ToLowerCase(SubSeq(r, c + 3, FirstOf(r, {"/", "?", "#"}, c + 3) - 1))
       ELSE <<>>

\* function sourceOf(r)
SourceOf(r) ==
    IF ~ Truthy(r) THEN "Direct"
    ELSE IF ~ UrlParses(r) THEN "Referral"
    ELSE LET h == Hostname(r)
         IN IF Includes(h, <<"g", "o", "o", "g", "l", "e">>) THEN "Search"
            ELSE IF \/ Includes(h, <<"f", "a", "c", "e", "b", "o", "o", "k">>)
                    \/ Includes(h, <<"t", "w", "i", "t", "t", "e", "r">>)
                    \/ Includes(h, <<"i", "n", "s", "t", "a", "g", "r", "a", "m">>)
                 THEN "Social"
            ELSE "Referral"

\* GET /api/analytics/sources
Sources(evs0, q, t) ==
    LET evs == FilterEvents(evs0, PeriodOf(q), t)
        counts == Tally([i \in DOMAIN evs |-> SourceOf(evs[i].referrer)])
    IN [i \in DOMAIN counts |-> [source |-> counts[i].key, count |-> counts[i].count]]

\* /Mobile|Android|iPhone/i.test(ua) and /Tablet|iPad/i.test(ua)
IsMobileUa(ua) ==
    LET v == ToLowerCase(ua)
    IN \/ Includes(v, <<"m", "o", "b", "i", "l", "e">>)
       \/ Includes(v, <<"a", "n", "d", "r", "o", "i", "d">>)
       \/ Includes(v, <<"i", "p", "h", "o", "n", "e">>)
IsTabletUa(ua) ==
    LET v == ToLowerCase(ua)
    IN \/ Includes(v, <<"t", "a", "b", "l", "e", "t">>)
       \/ Includes(v, <<"i", "p", "a", "d">>)

\* function deviceOf(ua = '')
DeviceOf(ua) ==
    IF IsMobileUa(ua) THEN "Mobile" ELSE IF IsTabletUa(ua) THEN "Tablet" ELSE "Desktop"

\* GET /api/analytics/devices
Devices(evs0, q, t) ==
    LET evs == FilterEvents(evs0, PeriodOf(q), t)
        counts == Tally([i \in DOMAIN evs |-> DeviceOf(evs[i].device)])
    IN [i \in DOMAIN counts |-> [device |-> counts[i].key, count |-> counts[i].count]]

\* the arguments of slice(-50) and slice(0, 20) in the realtime route
RealtimeTail == 50
RealtimeLimit == 20

\* the array left in log order: reverse() forgotten
InLogOrder(v) == v

\* Array.prototype.slice(-n) and .reverse()
SliceLast(v, n) == IF Len(v) <= n THEN v ELSE SubSeq(v, Len(v) - n + 1, Len(v))
Reverse(v) == [i \in DOMAIN v |-> v[Len(v) + 1 - i]]

\* the em dash the realtime route reports for what it does not know
Placeholder == "--"

\* a realtime that reports the events filterEvents keeps for 7d
RealtimeFiltered(evs0) ==
    LET rev == Reverse(SliceLast(FilterEvents(evs0, "7d", now), RealtimeTail))
        last == SubSeq(rev, 1, IF Len(rev) < RealtimeLimit THEN Len(rev)
                                ELSE RealtimeLimit)
    IN [i \in DOMAIN last |->
          [time |-> GetHours(last[i].ts),
           page |-> last[i].path,
           location |-> Placeholder,
           device |-> IF IsMobileUa(last[i].device) THEN "Mobile" ELSE "Desktop",
           duration |-> Placeholder]]

\* GET /api/analytics/realtime; toLocaleTimeString keeps the time of day
Realtime(evs0) ==
    LET rev == Reverse(SliceLast(evs0, RealtimeTail))
        last == SubSeq(rev, 1, IF Len(rev) < RealtimeLimit THEN Len(rev)
                                ELSE RealtimeLimit)
    IN [i \in DOMAIN last |->
          [time |-> GetHours(last[i].ts),
           page |-> last[i].path,
           location |-> Placeholder,
           device |-> IF IsMobileUa(last[i].device) THEN "Mobile" ELSE "Desktop",
           duration |-> Placeholder]]

\* ------------------------------------------------- the queried logs
\* who sends an event: a session with its referrer and its user agent
RefGoogle == <<"h", "t", "t", "p", ":", "/", "/", "w", ".", "G", "o", "o", "g",
               "l", "e", ".", "c", "/", "s">>
RefNoUrl == <<"n", "o", " ", "u", "r", "l">>
UaPhone == <<"i", "P", "h", "o", "n", "e">>
UaDesktop == <<"M", "o", "z">>
UaPad == <<"i", "P", "a", "d">>
Visitors ==
    { [sessionId |-> <<"s", 1>>, referrer |-> RefGoogle, device |-> UaPhone],
      [sessionId |-> <<"s", 2>>, referrer |-> RefNoUrl, device |-> UaPad] }

\* how long before the query an event was stored: on and just past the edge
\* of each window
Ages == {0, DayMs, DayMs + 1, 7 * DayMs + 1, 30 * DayMs + 1, 90 * DayMs + 1,
         365 * DayMs + 1}

\* paths of stored events; a log written before the ingestion filter existed
\* may hold administrative ones
StoredPaths == {PRoot, PHome, PAdminDash}

StoredEvent(v, age, path) ==
    [id |-> 0, ts |-> Now0 - age, type |-> Pageview, path |-> path,
     referrer |-> v.referrer, device |-> v.device, sessionId |-> v.sessionId]

EventPool == {StoredEvent(v, age, path) :
                 v \in Visitors, age \in Ages, path \in StoredPaths}

\* n page views of the home page by a session of its own, stored just now
Filler(n) ==
    [i \in 1..n |-> [id |-> 0, ts |-> Now0, type |-> Pageview, path |-> PHome,
                     referrer |-> <<>>, device |-> UaDesktop,
                     sessionId |-> <<"s", 0>>]]

\* the logs queried: up to MaxLog events drawn freely, and one drawn event
\* followed by enough page views to be the last, or one past the last, that
\* realtime reports
LogPool ==
    UNION {[1..n -> EventPool] : n \in 0..MaxLog}
    \cup {<<e>> \o Filler(n) : e \in EventPool,
                               n \in {RealtimeLimit - 1, RealtimeLimit}}

\* period tokens a dashboard may send
PeriodInputs == {"1d", "7d", "30d", "90d", "1y", "bogus", "", NoPeriod, "toString"}

\* ------------------------------------- logs for the aggregate views
\* sessions of the bounce logs, and the most in-window events of one session
MaxSessions == 3
MaxVisits == 3
\* distinct pages of the ranking logs (top-pages keeps 10)
MaxPages == 12

\* a stored event: who sent it, how long before the query, about which page
LoggedEvent(sessionId, age, path, referrer, device) ==
    [id |-> 0, ts |-> Now0 - age, type |-> Pageview, path |-> path,
     referrer |-> referrer, device |-> device, sessionId |-> sessionId]

Repeat(n, e) == [i \in 1..n |-> e]

RECURSIVE Flatten(_)
Flatten(logs) ==
    IF logs = <<>> THEN <<>>
    ELSE Flatten(SubSeq(logs, 1, Len(logs) - 1)) \o logs[Len(logs)]

\* session k sends c[k] page views inside every window and o[k] page views
\* eight days ago (outside 1d and 7d, inside 30d and longer)
BounceLogs ==
    { Flatten([k \in 1..MaxSessions |->
          Repeat(c[k], LoggedEvent(<<"s", k>>, 0, PHome, <<>>, UaDesktop))
          \o Repeat(o[k], LoggedEvent(<<"s", k>>, 7 * DayMs + DayMs, PRoot, <<>>,
                                      UaDesktop))]) :
        c \in [1..MaxSessions -> 0..MaxVisits], o \in [1..MaxSessions -> 0..1] }

\* page number k, and a view of it
PageNo(k) == <<"/", Lower[k + 1]>>
PageView(k, age) == LoggedEvent(<<"s", 1>>, age, PageNo(k), <<>>, UaDesktop)

\* pages 1..n viewed once each in turn, after at most one view eight days
\* ago and before at most one more view just now
PageLogs ==
    { (IF old = 0 THEN <<>> ELSE <<PageView(old, 7 * DayMs + DayMs)>>)
      \o [k \in 1..n |-> PageView(k, 1)]
      \o (IF again = 0 THEN <<>> ELSE <<PageView(again, 0)>>) :
        n \in 0..MaxPages, old \in 0..MaxPages, again \in 0..MaxPages }

\* referrers and user agents as clients report them
RefFacebook == <<"h", "t", "t", "p", "s", ":", "/", "/", "f", "a", "c", "e", "b",
                 "o", "o", "k", ".", "c">>
RefTwitter == <<"h", "t", "t", "p", ":", "/", "/", "t", "w", "i", "t", "t", "e",
                "r", ".", "c", "/">>
RefInstagram == <<"h", "t", "t", "p", ":", "/", "/", "i", "n", "s", "t", "a", "g",
                  "r", "a", "m", ".", "c">>
RefOther == <<"h", "t", "t", "p", ":", "/", "/", "x", ".", "c", "/", "g", "o", "o",
              "g", "l", "e">>
RefBoth == <<"h", "t", "t", "p", ":", "/", "/", "t", "w", "i", "t", "t", "e", "r",
             ".", "g", "o", "o", "g", "l", "e", ".", "c">>
RefMail == <<"m", "a", "i", "l", "t", "o", ":", "g", "o", "o", "g", "l", "e">>
RefBare == <<"g", "o", "o", "g", "l", "e", ".", "c">>
UaAndroid == <<"A", "n", "d", "r", "o", "i", "d">>
UaMobile == <<"M", "o", "b", "i", "l", "e">>
UaTablet == <<"T", "a", "b", "l", "e", "t">>
UaPadMobile == <<"i", "P", "a", "d", " ", "M", "o", "b", "i", "l", "e">>
UaLowerPad == <<"i", "p", "a", "d">>
UaLowerMobile == <<"a", "u", "t", "o", "m", "o", "b", "i", "l", "e">>
Clients ==
    { [referrer |-> <<>>, device |-> <<>>],
      [referrer |-> RefGoogle, device |-> UaPhone],
      [referrer |-> RefFacebook, device |-> UaAndroid],
      [referrer |-> RefTwitter, device |-> UaMobile],
      [referrer |-> RefInstagram, device |-> UaTablet],
      [referrer |-> RefOther, device |-> UaPad],
      [referrer |-> RefBoth, device |-> UaPadMobile],
      [referrer |-> RefMail, device |-> UaDesktop],
      [referrer |-> RefBare, device |-> UaLowerPad],
      [referrer |-> RefNoUrl, device |-> UaLowerMobile] }

\* up to two page views, each by any client, the first possibly eight days ago
ClientLogs ==
    { [i \in 1..n |-> LoggedEvent(<<"s", i>>, IF i = 1 THEN age ELSE 0, PHome,
                                  c[i].referrer, c[i].device)] :
        n \in 0..2, c \in [1..2 -> Clients], age \in {0, 7 * DayMs + DayMs} }

\* a log of n events stored an hour apart, over five pages and two devices
Journal(n) ==
    [i \in 1..n |->
        LoggedEvent(<<"s", 1>>, n - i,
                    <<PRoot, PHome, PNotAdmin, PAdminDash, PAdmin>>[(i % 5) + 1],
                    <<>>, IF i % 2 = 0 THEN UaPhone ELSE UaDesktop)]
JournalLogs ==
    { Journal(n) : n \in {0, 1, RealtimeLimit - 1, RealtimeLimit, RealtimeLimit + 1,
                          RealtimeTail - 1, RealtimeTail, RealtimeTail + 1} }

AggregateLogs == BounceLogs \cup PageLogs \cup ClientLogs \cup JournalLogs

\* ------------------------------------------------ the query routes
\* The routes change nothing, so one query per stored log shows all they do.
Answered(endpoint, q, body) ==
    /\ qry = NoQuery
    /\ qry' = [endpoint |-> endpoint, period |-> q, body |-> body]
    /\ UNCHANGED <<now, nextId, events, tracked, treq>>
    /\ UNCHANGED <<mediaVars, browserVars>>

GetSummary == \E q \in PeriodInputs : Answered("summary", q, Summary(events, q, now))
GetTimeseries ==
    \E q \in PeriodInputs : Answered("timeseries", q, Timeseries(events, q, now))
GetTopPages == \E q \in PeriodInputs : Answered("top-pages", q, TopPages(events, q, now))
GetSources == \E q \in PeriodInputs : Answered("sources", q, Sources(events, q, now))
GetDevices == \E q \in PeriodInputs : Answered("devices", q, Devices(events, q, now))
GetRealtime == Answered("realtime", NoPeriod, Realtime(events))

\* ============================================================== browser
\* PerAnkhAuth (utils/auth.js) and the Header component, as they run in one
\* tab.  Here time is counted in minutes.

\* this.maxLoginAttempts
maxLoginAttempts == 5
\* this.lockoutDuration = 15 * 60 * 1000
lockoutDuration == 15
\* this.sessionTimeout = 8 * 60 * 60 * 1000
sessionTimeout == 480

\* identifiers and passwords a visitor may type
TestUser == <<"t","e","s","t","u","s","e","r">>
Guest == <<"m","e">>
Idents == {TestUser, Guest}
WrongPassword == <<"w","r","o","n","g","p","a","s","s","w","o","r","d">>
OtherPassword == <<"W","r","0","n","g","P","a","s","s">>
GoodPassword == <<"P","a","s","s","w","0","r","d">>
Passwords == {WrongPassword, OtherPassword, GoodPassword}

\* validator.isAlphanumeric(username, 'en-US', { ignore: '_-.' })
IsAlphanumeric(s) ==
    LET kept == SelectSeq(s, LAMBDA c : c \notin {"_", "-", "."})
    IN  /\ kept # <<>>
        /\ \A i \in DOMAIN kept :
             kept[i] \in Range(Lower) \cup Range(Upper) \cup Digits

\* /(?=.*[a-z])(?=.*[A-Z])(?=.*\d)/.test(password)
HasLowerUpperDigit(password) ==
    /\ \E i \in DOMAIN password : password[i] \in Range(Lower)
    /\ \E i \in DOMAIN password : password[i] \in Range(Upper)
    /\ \E i \in DOMAIN password : password[i] \in Digits

\* validateInput(username, password).errors
ValidateInput(username, password) ==
    (IF username = <<>>
       THEN <<"Username is required">>
       ELSE (IF Len(username) < 3 \/ Len(username) > 50
               THEN <<"Username must be between 3 and 50 characters">>
               ELSE <<>>)
            \o (IF ~IsAlphanumeric(username)
                  THEN <<"Username contains invalid characters">>
                  ELSE <<>>))
    \o
    (IF password = <<>>
       THEN <<"Password is required">>
       ELSE (IF Len(password) < 8
               THEN <<"Password must be at least 8 characters long">>
               ELSE <<>>)
            \o (IF ~HasLowerUpperDigit(password)
                  THEN <<"Password must contain at least one uppercase letter, one lowercase letter, and one number">>
                  ELSE <<>>))

\* JSON.parse(localStorage.getItem(key) || '{"count": 0, "lastAttempt": 0}')
StoredAttempts(item) ==
    IF item = <<>> THEN [count |-> 0, lastAttempt |-> 0] ELSE item[1]

TooManyAttempts == "Too many login attempts"

\* checkRateLimit that still locks out when no time remains
RateLimitedInclusive(item, t) ==
    LET stored == IF item = <<>> THEN [count |-> 0, lastAttempt |-> 0] ELSE item[1]
    IN  IF stored.count >= maxLoginAttempts
           /\ t - stored.lastAttempt <= lockoutDuration
          THEN <<"Too many login attempts">>
          ELSE <<>>

\* checkRateLimit(identifier) at Date.now() = t: the errors it throws
\* (none when it returns true)
RateLimited(item, t) ==
    LET stored == StoredAttempts(item)
        count == IF t - stored.lastAttempt > lockoutDuration
                   THEN 0 ELSE stored.count
        timeRemaining == lockoutDuration - (t - stored.lastAttempt)
    IN  IF count >= maxLoginAttempts /\ timeRemaining > 0
          THEN <<TooManyAttempts>>
          ELSE <<>>

\* recordLoginAttempt that starts the count again once the lockout ran out
RecordedAfterReset(item, success, t) ==
    LET stored == IF item = <<>> THEN [count |-> 0, lastAttempt |-> 0] ELSE item[1]
    IN  IF success
          THEN <<>>
          ELSE <<[count |-> IF t - stored.lastAttempt >= lockoutDuration
                              THEN 1 ELSE stored.count + 1,
                  lastAttempt |-> t]>>

\* recordLoginAttempt(identifier, success) at Date.now() = t: the item it
\* leaves at login_attempts_<identifier>
Recorded(item, success, t) ==
    IF success
      THEN <<>>
      ELSE <<[count |-> StoredAttempts(item).count + 1, lastAttempt |-> t]>>

\* _mockAuthentication(username, password).success
MockAuthentication(username, password) ==
    Len(username) >= 3 /\ Len(password) >= 8

\* Math.random().toString(36).substr(2, 9): empty when the draw is 0
UserIds == {"", "k3x9q"}

\* the sessionData object authenticate builds at Date.now() = t
SessionData(userId, username, t) ==
    [userId |-> userId,
     username |-> username,
     role |-> IF Includes(username, <<"a","d","m","i","n">>)
                THEN "admin" ELSE "member",
     loginTime |-> t,
     expiresAt |-> t + sessionTimeout,
     sessionId |-> "hex64",
     csrfToken |-> "hex32"]

\* _storeSecureSession(sessionData), encrypting under key
StoreSecureSession(st, sessionData, key) ==
    [st EXCEPT !.session = <<[key |-> key, data |-> sessionData]>>,
               !.active = TRUE,
               !.csrf_token = <<sessionData.csrfToken>>]

\* logout(): what it leaves of localStorage and sessionStorage
LoggedOut(st) ==
    [session |-> <<>>, active |-> FALSE, csrf_token |-> <<>>,
     perankh_key |-> <<>>]

\* _getSecureSession() under the instance's key: the session data (none
\* for null) and the storage it leaves (decryption failure logs out)
GetSecureSession(st, key) ==
    IF st.session = <<>>
      THEN [data |-> <<>>, storage |-> st]
      ELSE IF st.session[1].key # key
             THEN [data |-> <<>>, storage |-> LoggedOut(st)]
             ELSE [data |-> <<st.session[1].data>>, storage |-> st]

\* isAuthenticated that still accepts a session at its expiry instant
AuthenticatedAtExpiry(st, key, t) ==
    IF ~st.active \/ st.session = <<>>
      THEN [truth |-> FALSE, storage |-> st]
      ELSE IF st.session[1].key # key
             THEN [truth |-> FALSE, storage |-> LoggedOut(st)]
             ELSE IF t > st.session[1].data.expiresAt
                     \/ st.session[1].data.sessionId = ""
                     \/ st.session[1].data.userId = ""
                    THEN [truth |-> FALSE, storage |-> LoggedOut(st)]
                    ELSE [truth |-> TRUE, storage |-> st]

\* isAuthenticated() at new Date() = t: its value and the storage it leaves
Authenticated(st, key, t) ==
    IF ~st.active
      THEN [truth |-> FALSE, storage |-> st]
      ELSE LET got == GetSecureSession(st, key)
           IN  IF got.data = <<>>
                 THEN [truth |-> FALSE, storage |-> got.storage]
                 ELSE IF t >= got.data[1].expiresAt
                        THEN [truth |-> FALSE, storage |-> LoggedOut(st)]
                        ELSE IF got.data[1].sessionId = "" \/ got.data[1].userId = ""
                               THEN [truth |-> FALSE, storage |-> LoggedOut(st)]
                               ELSE [truth |-> TRUE, storage |-> st]

\* the safe session object getSession() returns
SafeSession(d) ==
    [userId |-> d.userId, username |-> d.username, role |-> d.role,
     loginTime |-> d.loginTime, expiresAt |-> d.expiresAt]

\* getSession() at t: its value (none for null) and the storage it leaves
SessionOf(st, key, t) ==
    LET isAuth == Authenticated(st, key, t)
        got == GetSecureSession(isAuth.storage, key)
    IN  IF ~isAuth.truth
          THEN [session |-> <<>>, storage |-> isAuth.storage]
          ELSE IF got.data = <<>>
                 THEN [session |-> <<>>, storage |-> got.storage]
                 ELSE [session |-> <<SafeSession(got.data[1])>>,
                       storage |-> got.storage]

\* checkAuthStatus() at t: the detail it dispatches and the storage it leaves
AuthStatus(st, key, t) ==
    LET isAuth == Authenticated(st, key, t)
        got == SessionOf(isAuth.storage, key, t)
    IN  [detail |-> [isAuthenticated |-> isAuth.truth, session |-> got.session],
         storage |-> got.storage]

\* ---- the Header component and document's authStatusChanged listeners
\* the arrow function the n-th init() registers, and the method destroy()
\* passes to removeEventListener
ArrowListener(n) == [fn |-> "arrow", n |-> n]
HandleAuthStatusChange == [fn |-> "handleAuthStatusChange", n |-> 0]

AddEventListener(ls, cb) ==
    IF cb \in Range(ls) THEN ls ELSE Append(ls, cb)
RemoveEventListener(ls, cb) == SelectSeq(ls, LAMBDA l : l # cb)

\* new Header(): the fields the constructor leaves
NewHeader ==
    [attached |-> FALSE, destroyed |-> FALSE, isAuthenticated |-> FALSE,
     userSession |-> <<>>, inits |-> 1]

\* document.dispatchEvent(new CustomEvent('authStatusChanged', { detail })):
\* every registered listener runs handleAuthStatusChange(detail)
Dispatched(h, ls, detail) ==
    IF ls = <<>>
      THEN h
      ELSE [h EXCEPT !.isAuthenticated = detail.isAuthenticated,
                     !.userSession = detail.session]

\* ---- state of the tab
\* history of an identifier: failures recorded since the last recorded
\* success, the time of the latest one, whether it came after the lockout
\* of five earlier ones had run out, and authenticate calls rejected in a row
NoHistory == [fails |-> 0, last |-> 0, lapsed |-> FALSE, rejected |-> 0]
Failed(h, t) ==
    [h EXCEPT !.fails = @ + 1, !.last = t,
              !.lapsed = h.fails >= maxLoginAttempts /\ t - h.last >= lockoutDuration]
Succeeded(h) == [h EXCEPT !.fails = 0, !.lapsed = FALSE]

NoOut ==
    [op |-> "none", id |-> <<>>, errors |-> <<>>, truth |-> FALSE,
     session |-> <<>>]
Out(op, id, errors, truth, session) ==
    [op |-> op, id |-> id, errors |-> errors, truth |-> truth,
     session |-> session]

BrowserInit ==
    /\ attempts = [u \in Idents |-> <<>>]
    /\ storage = [session |-> <<>>, active |-> FALSE, csrf_token |-> <<>>,
                  perankh_key |-> <<1>>]
    /\ auth = [encryptionKey |-> 1, call |-> <<>>]
    /\ out = NoOut
    /\ hist = [u \in Idents |-> NoHistory]
    /\ listeners = <<ArrowListener(1)>>
    /\ header = NewHeader

\* ---- actions
\* minutes pass until the clock reads t
Elapse(t) ==
    /\ now < t
    /\ now' = t
    /\ UNCHANGED <<serverVars, browserVars>>

\* auth.checkRateLimit(u)
CheckRateLimit(u) ==
    /\ out' = Out("checkRateLimit", u, RateLimited(attempts[u], now),
                  RateLimited(attempts[u], now) = <<>>, <<>>)
    /\ UNCHANGED <<now, serverVars, attempts, storage, auth, hist, listeners, header>>

\* auth.recordLoginAttempt(u, success)
RecordLoginAttempt(u, success) ==
    /\ success \/ StoredAttempts(attempts[u]).count < MaxAttempts
    /\ attempts' = [attempts EXCEPT ![u] = Recorded(attempts[u], success, now)]
    /\ hist' = [hist EXCEPT ![u] = IF success THEN Succeeded(@) ELSE Failed(@, now)]
    /\ out' = Out("recordLoginAttempt", u, <<>>, FALSE, <<>>)
    /\ UNCHANGED <<now, serverVars, storage, auth, listeners, header>>

\* authenticate(username, password) rejects with errors
AuthRejected(username, errors) ==
    /\ out' = Out("authenticate", username, errors, FALSE, <<>>)
    /\ hist' = [hist EXCEPT ![username].rejected = @ + 1]

\* authenticate(username, password) up to the await of the mock call
AuthBegin(username, password) ==
    /\ auth.call = <<>>
    /\ hist[username].rejected < MaxAttempts
    /\ LET errors == ValidateInput(username, password)
           limit == RateLimited(attempts[username], now)
       IN  IF errors # <<>>
             THEN AuthRejected(username, errors) /\ UNCHANGED auth
             ELSE IF limit # <<>>
                    THEN AuthRejected(username, limit) /\ UNCHANGED auth
                    ELSE /\ auth' = [auth EXCEPT !.call =
                                       <<[username |-> username, password |-> password]>>]
                         /\ UNCHANGED <<out, hist>>
    /\ UNCHANGED <<now, serverVars, attempts, storage, listeners, header>>

\* authenticate(username, password) from the mock's answer on
AuthFinish ==
    /\ auth.call # <<>>
    /\ LET username == auth.call[1].username
           password == auth.call[1].password
       IN  IF ~MockAuthentication(username, password)
             THEN /\ attempts' = [attempts EXCEPT ![username] =
                                    Recorded(attempts[username], FALSE, now)]
                  /\ out' = Out("authenticate", username, <<"Invalid credentials">>, FALSE, <<>>)
                  /\ hist' = [hist EXCEPT ![username] =
                                [Failed(@, now) EXCEPT !.rejected = @ + 1]]
                  /\ UNCHANGED storage
             ELSE \E userId \in UserIds :
                  /\ attempts' = [attempts EXCEPT ![username] =
                                    Recorded(attempts[username], TRUE, now)]
                  /\ storage' = StoreSecureSession(storage,
                                    SessionData(userId, username, now),
                                    auth.encryptionKey)
                  /\ out' = Out("authenticate", username, <<>>, TRUE, <<>>)
                  /\ hist' = [hist EXCEPT ![username] =
                                [Succeeded(@) EXCEPT !.rejected = 0]]
    /\ auth' = [auth EXCEPT !.call = <<>>]
    /\ UNCHANGED <<now, serverVars, listeners, header>>

\* auth.isAuthenticated()
IsAuthenticated ==
    /\ storage' = Authenticated(storage, auth.encryptionKey, now).storage
    /\ out' = Out("isAuthenticated", <<>>, <<>>,
                  Authenticated(storage, auth.encryptionKey, now).truth, <<>>)
    /\ UNCHANGED <<now, serverVars, attempts, auth, hist, listeners, header>>

\* auth.getSession()
GetSession ==
    /\ storage' = SessionOf(storage, auth.encryptionKey, now).storage
    /\ out' = Out("getSession", <<>>, <<>>, FALSE,
                  SessionOf(storage, auth.encryptionKey, now).session)
    /\ UNCHANGED <<now, serverVars, attempts, auth, hist, listeners, header>>

\* auth.checkAuthStatus(), also run every five minutes and when the tab
\* becomes visible
CheckAuthStatus ==
    LET status == AuthStatus(storage, auth.encryptionKey, now)
    IN  /\ storage' = status.storage
        /\ header' = Dispatched(header, listeners, status.detail)
        /\ out' = Out("checkAuthStatus", <<>>, <<>>,
                      status.detail.isAuthenticated, status.detail.session)
        /\ UNCHANGED <<now, serverVars, attempts, auth, hist, listeners>>

\* auth.logout()
Logout ==
    /\ storage' = LoggedOut(storage)
    /\ out' = Out("logout", <<>>, <<>>, FALSE, <<>>)
    /\ UNCHANGED <<now, serverVars, attempts, auth, hist, listeners, header>>

\* the page is loaded again in the same tab: a new PerAnkhAuth over the
\* storage that is left, then a new Header on the new document
Reload ==
    /\ storage.perankh_key = <<>> => auth.encryptionKey < MaxKeys
    /\ LET key == IF storage.perankh_key = <<>>
                    THEN auth.encryptionKey + 1
                    ELSE storage.perankh_key[1]
           kept == [storage EXCEPT !.perankh_key = <<key>>]
           status == AuthStatus(kept, key, now)
       IN  /\ auth' = [encryptionKey |-> key, call |-> <<>>]
           /\ storage' = status.storage
           /\ out' = Out("constructor", <<>>, <<>>,
                         status.detail.isAuthenticated, status.detail.session)
    /\ listeners' = <<ArrowListener(1)>>
    /\ header' = NewHeader
    /\ UNCHANGED <<now, serverVars, attempts, hist>>

\* parent.appendChild(header.getElement())
HeaderAttach ==
    /\ ~header.attached
    /\ header' = [header EXCEPT !.attached = TRUE]
    /\ UNCHANGED <<now, serverVars, attempts, storage, auth, out, hist, listeners>>

\* header.destroy()
HeaderDestroy ==
    /\ header' = [header EXCEPT !.attached = FALSE, !.destroyed = TRUE]
    /\ listeners' = RemoveEventListener(listeners, HandleAuthStatusChange)
    /\ UNCHANGED <<now, serverVars, attempts, storage, auth, out, hist>>

\* header.update(options)
HeaderUpdate ==
    /\ Len(listeners) < MaxListeners
    /\ IF header.attached
         THEN /\ header' = [header EXCEPT !.destroyed = FALSE,
                                          !.inits = @ + 1]
              /\ listeners' = AddEventListener(
                     RemoveEventListener(listeners, HandleAuthStatusChange),
                     ArrowListener(header.inits + 1))
         ELSE UNCHANGED <<header, listeners>>
    /\ UNCHANGED <<now, serverVars, attempts, storage, auth, out, hist>>

\* ---------------------------------------------------------- specification
InitMedia ==
    /\ now = 0
    /\ mediaDb = <<>>
    /\ disk = {}
    /\ nextId = 0
    /\ started = 0
    /\ req = [r \in Req |-> IdleReq]
    /\ events = <<>>
    /\ tracked = 0
    /\ treq = [r \in TReq |-> IdleTrack]
    /\ qry = NoQuery
    /\ BrowserInit

NextMedia ==
    \/ \E r \in Req : PostBegin(r)
    \/ \E r \in Req : StoreFile(r)
    \/ \E r \in Req : PostRead(r)
    \/ \E r \in Req : PostWrite(r)
    \/ \E r \in Req : DeleteBegin(r)
    \/ \E r \in Req : DeleteRead(r)
    \/ \E r \in Req : DeleteWrite(r)
    \/ \E r \in Req : DeleteRemove(r)
    \/ \E r \in Req : GetMedia(r)

SpecMedia == InitMedia /\ [][NextMedia]_vars

\* the service starts on an empty event log
InitTrack == InitMedia

NextTrack ==
    \/ \E r \in TReq : TrackBegin(r)
    \/ \E r \in TReq : TrackRead(r)
    \/ \E r \in TReq : TrackWrite(r)

SpecTrack == InitTrack /\ [][NextTrack]_vars

\* the dashboard queries a stored log
InitQuery ==
    /\ now = Now0
    /\ events \in LogPool
    /\ qry = NoQuery
    /\ mediaDb = <<>>
    /\ disk = {}
    /\ nextId = 0
    /\ started = 0
    /\ req = [r \in Req |-> IdleReq]
    /\ tracked = 0
    /\ treq = [r \in TReq |-> IdleTrack]
    /\ BrowserInit

NextQuery ==
    \/ GetSummary
    \/ GetTimeseries
    \/ GetTopPages
    \/ GetSources
    \/ GetDevices
    \/ GetRealtime

SpecQuery == InitQuery /\ [][NextQuery]_vars

\* the dashboard queries a log chosen to exercise the aggregate views
InitAggregate ==
    /\ now = Now0
    /\ events \in AggregateLogs
    /\ qry = NoQuery
    /\ mediaDb = <<>>
    /\ disk = {}
    /\ nextId = 0
    /\ started = 0
    /\ req = [r \in Req |-> IdleReq]
    /\ tracked = 0
    /\ treq = [r \in TReq |-> IdleTrack]
    /\ BrowserInit

SpecAggregate == InitAggregate /\ [][NextQuery]_vars

\* the page calls checkRateLimit and recordLoginAttempt while minutes pass,
\* and the visitor logs in with a well-formed password
LockoutInstants ==
    {Now0 + d : d \in {1, lockoutDuration, lockoutDuration + MaxSlack}}

InitRateLimit ==
    /\ now = Now0
    /\ mediaDb = <<>>
    /\ disk = {}
    /\ nextId = 0
    /\ started = 0
    /\ req = [r \in Req |-> IdleReq]
    /\ events = <<>>
    /\ tracked = 0
    /\ treq = [r \in TReq |-> IdleTrack]
    /\ qry = NoQuery
    /\ BrowserInit

NextRateLimit ==
    \/ \E t \in LockoutInstants : Elapse(t)
    \/ \E u \in Idents : CheckRateLimit(u)
    \/ \E u \in Idents : \E success \in BOOLEAN : RecordLoginAttempt(u, success)
    \/ AuthBegin(TestUser, GoodPassword)
    \/ AuthFinish

SpecRateLimit == InitRateLimit /\ [][NextRateLimit]_vars

\* the login form: the visitor submits identifiers and passwords
InitLogin == InitRateLimit

NextLogin ==
    \/ \E t \in LockoutInstants : Elapse(t)
    \/ \E u \in Idents : \E p \in Passwords : AuthBegin(u, p)
    \/ AuthFinish
    \/ \E u \in Idents : CheckRateLimit(u)

SpecLogin == InitLogin /\ [][NextLogin]_vars

\* the visitor logs in and out and reloads the page while the session runs
\* towards its expiry
SessionInstants ==
    {Now0 + d : d \in {1, sessionTimeout, sessionTimeout + MaxSlack}}

InitSession == InitRateLimit

NextSession ==
    \/ \E t \in SessionInstants : Elapse(t)
    \/ AuthBegin(TestUser, GoodPassword)
    \/ AuthFinish
    \/ IsAuthenticated
    \/ GetSession
    \/ CheckAuthStatus
    \/ Logout
    \/ Reload

SpecSession == InitSession /\ [][NextSession]_vars

\* the page attaches, updates and destroys its header while the visitor
\* logs in and out
InitHeader == InitRateLimit

NextHeader ==
    \/ HeaderAttach
    \/ HeaderDestroy
    \/ HeaderUpdate
    \/ CheckAuthStatus
    \/ AuthBegin(TestUser, GoodPassword)
    \/ AuthFinish
    \/ Logout

SpecHeader == InitHeader /\ [][NextHeader]_vars

\* ================================================================ claims
\* ---- media
IsPost(r) == req[r].kind = "post" /\ req[r].pc = "done" /\ req[r].resp.status = 200
IsDelete(r) == req[r].kind = "delete" /\ req[r].pc = "done"
IsGet(r) == req[r].kind = "get" /\ req[r].pc = "done"

\* C1: in every reachable state each record of the media catalog has its
\* stored file in the upload directory, and no two records of the catalog
\* share a storedName.
C1_CatalogFilesOnDisk ==
    /\ \A i \in DOMAIN mediaDb : mediaDb[i].storedName \in disk
    /\ \A i, j \in DOMAIN mediaDb :
          i # j => mediaDb[i].storedName # mediaDb[j].storedName

\* C2: any two uploaded files with the same original filename, of one batch
\* or of two requests, get distinct stored names, and the records created
\* for two such files are distinct with distinct ids.
C2_SameNameDistinctStored ==
    /\ \A r1, r2 \in Req :
         \A i \in DOMAIN req[r1].stored : \A j \in DOMAIN req[r2].stored :
            (<<r1, i>> # <<r2, j>> /\ req[r1].files[i] = req[r2].files[j])
               => req[r1].stored[i] # req[r2].stored[j]
    /\ \A i, j \in DOMAIN mediaDb :
         (i # j /\ mediaDb[i].name = mediaDb[j].name)
            => /\ mediaDb[i].storedName # mediaDb[j].storedName
               /\ mediaDb[i].id # mediaDb[j].id

\* C3: the step in which a DELETE reads a catalog that holds no record of
\* its id answers 404 with an error body and changes neither the catalog
\* document nor any file of the upload directory.
C3_DeleteNotFound ==
    [][\A r \in Req :
         ( /\ req[r].kind = "delete"
           /\ req[r].pc = "read"
           /\ req'[r].pc # "read"
           /\ ~ \E i \in DOMAIN mediaDb : mediaDb[i].id = req[r].id )
         => /\ req'[r].pc = "done"
            /\ req'[r].resp = [status |-> 404, body |-> <<"Not found">>]
            /\ mediaDb' = mediaDb
            /\ disk' = disk]_vars

C3_Witness ==
    \E r \in Req : IsDelete(r) /\ req[r].resp.status = 404 /\ Len(req[r].db0) >= 1

\* the catalog db without its record number i
Without(db, i) == SubSeq(db, 1, i - 1) \o SubSeq(db, i + 1, Len(db))

\* a DELETE that was not interleaved removed exactly the record of its id
DeletedOne(r) ==
    \E i \in DOMAIN req[r].db0 :
       /\ req[r].db0[i].id = req[r].id
       /\ \A j \in DOMAIN req[r].db0 : req[r].db0[j].id = req[r].id => j = i
       /\ mediaDb = Without(req[r].db0, i)
       /\ req[r].resp = [status |-> 200, body |-> <<"ok">>]

\* C4 as claimed: after a DELETE of a present id that was not interleaved, the
\* catalog is the old one without that record, the other records unchanged
\* and in order, the response is {ok:true} and the record's file is absent.
C4_DeleteRemovesFile ==
    \A r \in Req :
       (IsDelete(r) /\ req[r].solo /\ req[r].resp.status # 404)
          => /\ DeletedOne(r)
             /\ req[r].item[1].storedName \notin disk

\* C4 amended: ... and the record's file is absent unless fs.remove failed
\* (the failure is swallowed, the response is still {ok:true}).
C4_DeleteRemovesOne ==
    \A r \in Req :
       (IsDelete(r) /\ req[r].solo /\ req[r].resp.status # 404)
          => /\ DeletedOne(r)
             /\ req[r].removed => req[r].item[1].storedName \notin disk

C4_Witness ==
    \E r \in Req :
       /\ IsDelete(r) /\ req[r].solo /\ req[r].resp.status = 200
       /\ Len(req[r].db0) = 3 /\ req[r].db0[2].id = req[r].id
       /\ req[r].removed

\* C5: a POST of n >= 1 files that was not interleaved created n records, one
\* per file in file order, with ids no record had, appended them to the
\* catalog it found and returned exactly them; a GET that follows returns
\* the old list followed by the new records.
C5_PostAppends ==
    \A r \in Req :
       (IsPost(r) /\ req[r].solo)
          => /\ Len(req[r].files) >= 1
             /\ Len(req[r].saved) = Len(req[r].files)
             /\ \A i \in DOMAIN req[r].saved :
                   /\ req[r].saved[i].name = req[r].files[i]
                   /\ req[r].saved[i].storedName = req[r].stored[i]
                   /\ \A j \in DOMAIN req[r].db0 :
                         req[r].db0[j].id # req[r].saved[i].id
                   /\ \A j \in DOMAIN req[r].saved :
                         j # i => req[r].saved[j].id # req[r].saved[i].id
             /\ mediaDb = req[r].db0 \o req[r].saved
             /\ req[r].resp.body = req[r].saved
             /\ \A g \in Req :
                   (IsGet(g) /\ req[g].solo)
                      => req[g].resp.body = req[r].db0 \o req[r].saved

C5_Witness ==
    \E r, g \in Req :
       /\ IsPost(r) /\ req[r].solo /\ Len(req[r].saved) = 2
       /\ Len(req[r].db0) >= 1
       /\ IsGet(g) /\ req[g].solo

\* ---- analytics
\* an administrative path, as the specification words it: in lower case it
\* starts with "/admin" or contains "admin-"
Administrative(p) ==
    LET v == [i \in DOMAIN p |-> LowerChar(p[i])]
        at(k, w) == k + Len(w) - 1 <= Len(v) /\ \A i \in DOMAIN w : v[k + i - 1] = w[i]
    IN \/ at(1, <<"/", "a", "d", "m", "i", "n">>)
       \/ \E k \in DOMAIN v : at(k, <<"a", "d", "m", "i", "n", "-">>)

Ignored == [NoTrackResp EXCEPT !.status = 200, !.ok = TRUE, !.ignored = TRUE]

\* C6: from an empty log, whatever track requests are served, no stored event
\* has an administrative path; a track request whose resolved path is
\* administrative is answered {ok:true, ignored:true}, builds no event and
\* the step that answers it leaves the event log unchanged.
C6_AdminNeverStored ==
    /\ [](\A i \in DOMAIN events : ~ Administrative(events[i].path))
    /\ [](\A r \in TReq :
            (treq[r].pc # "idle" /\ Administrative(FinalPath(treq[r].body)))
               => /\ treq[r].pc = "done"
                  /\ treq[r].resp = Ignored
                  /\ treq[r].event = NoEvent)
    /\ [][\A r \in TReq :
            (treq'[r] # treq[r] /\ treq'[r].resp = Ignored) => events' = events]_vars

C6_Witness ==
    \E r \in TReq :
       /\ treq[r].resp = Ignored
       /\ treq[r].body.path = PAdminDash
       /\ Len(events) >= 1

\* the windowed routes, and the window of a period as the specification
\* gives it: 1, 7, 30, 90 and 365 days, and 7 days for any other token
Windowed == {"summary", "timeseries", "top-pages", "sources", "devices"}
WindowDays(q) ==
    CASE q = "1d" -> 1 [] q = "7d" -> 7 [] q = "30d" -> 30 [] q = "90d" -> 90
      [] q = "1y" -> 365 [] OTHER -> 7
InWindow(e, q) == e.ts >= now - WindowDays(q) * DayMs

\* what a route answers for a log
Answer(endpoint, evs, q) ==
    CASE endpoint = "summary" -> Summary(evs, q, now)
      [] endpoint = "timeseries" -> Timeseries(evs, q, now)
      [] endpoint = "top-pages" -> TopPages(evs, q, now)
      [] endpoint = "sources" -> Sources(evs, q, now)
      [] endpoint = "devices" -> Devices(evs, q, now)

RECURSIVE SumOf(_)
SumOf(v) == IF v = <<>> THEN 0 ELSE v[Len(v)] + SumOf(SubSeq(v, 1, Len(v) - 1))

\* the number of events an answer counts
Counted(endpoint, body) ==
    CASE endpoint = "summary" -> body.pageViews
      [] endpoint = "timeseries" -> SumOf(body.values)
      [] OTHER -> SumOf([i \in DOMAIN body |-> body[i].count])

\* the in-window events of the log that are not administrative
Kept(q) ==
    LET Keep(e) == InWindow(e, q) /\ ~ IsAdminPath(e.path) IN SelectSeq(events, Keep)

\* C7: whatever the stored log holds, each windowed route answers what it
\* answers for the log's in-window, non-administrative events alone, and
\* counts exactly those (timeseries: all of them for 1d, no more than them
\* for the day buckets).
C7_ExactlyInWindowNonAdmin ==
    qry.endpoint \in Windowed =>
        /\ qry.body = Answer(qry.endpoint, Kept(qry.period), qry.period)
        /\ IF qry.endpoint = "timeseries" /\ qry.period # "1d"
           THEN Counted(qry.endpoint, qry.body) <= Len(Kept(qry.period))
           ELSE Counted(qry.endpoint, qry.body) = Len(Kept(qry.period))

\* the log without the events older than the window of period q
Recent(q) == LET In(e) == InWindow(e, q) IN SelectSeq(events, In)

\* C8: an event older than now - windowDuration(period) contributes to no
\* windowed route (the answer is the answer for the log without such events,
\* and counts no more events than that log holds), yet realtime reports every
\* event among the last 20 of the log, whatever its age.
C8_WindowFiltering ==
    /\ qry.endpoint \in Windowed =>
          /\ qry.body = Answer(qry.endpoint, Recent(qry.period), qry.period)
          /\ Counted(qry.endpoint, qry.body) <= Len(Recent(qry.period))
    /\ qry.endpoint = "realtime" =>
          \A i \in DOMAIN events :
             i > Len(events) - 20 =>
                /\ Len(events) + 1 - i \in DOMAIN qry.body
                /\ qry.body[Len(events) + 1 - i].page = events[i].path
                /\ qry.body[Len(events) + 1 - i].time = events[i].ts % DayMs

\* an old event, the 20th from the end of the log, is reported by realtime
C8_Witness ==
    /\ qry.endpoint = "realtime"
    /\ Len(events) = 20
    /\ events[1].ts < now - 365 * DayMs
    /\ Len(qry.body) = 20
    /\ qry.body[20].page = events[1].path

\* C9: for a period token outside {1d, 7d, 30d, 90d, 1y}, a missing or empty
\* one included, each windowed route answers what it answers for 7d.
C9_UnknownPeriodIs7d ==
    (qry.endpoint \in Windowed /\ qry.period \notin {"1d", "7d", "30d", "90d", "1y"})
       => qry.body = Answer(qry.endpoint, events, "7d")

\* C10: summary returns the number of in-window non-administrative events as
\* pageViews and the number of their distinct sessionIds as visitors, with
\* avgSession, newMembers and mobileTraffic null; so visitors <= pageViews,
\* and visitors = 0 exactly when pageViews = 0.
C10_SummaryCounts ==
    qry.endpoint = "summary" =>
       LET kept == Kept(qry.period)
       IN /\ qry.body.pageViews = Len(kept)
          /\ qry.body.visitors = Cardinality({kept[i].sessionId : i \in DOMAIN kept})
          /\ qry.body.avgSession = Null
          /\ qry.body.newMembers = Null
          /\ qry.body.mobileTraffic = Null
          /\ qry.body.visitors <= qry.body.pageViews
          /\ (qry.body.visitors = 0) <=> (qry.body.pageViews = 0)

\* ---- aggregate views
\* the sessions of a sequence of events, and those with exactly one event
SessionsOf(evs) == {evs[i].sessionId : i \in DOMAIN evs}
BouncedOf(evs) ==
    {sid \in SessionsOf(evs) :
        Cardinality({i \in DOMAIN evs : evs[i].sessionId = sid}) = 1}

\* C11: summary's bounceRate, in tenths of a percent, is 1000 * b / s rounded
\* to the nearest integer (a half rounds up), where s counts the sessions with
\* an in-window event and b those with exactly one; it is 0 when s = 0 and
\* always lies in 0..1000.
C11_BounceRate ==
    qry.endpoint = "summary" =>
       LET kept == Kept(qry.period)
           s == Cardinality(SessionsOf(kept))
           b == Cardinality(BouncedOf(kept))
           rate == qry.body.bounceRate
       IN /\ rate \in 0..1000
          /\ (s = 0) => (rate = 0)
          /\ (s > 0) => /\ 2 * s * rate - 2000 * b > 0 - s
                        /\ 2 * s * rate - 2000 * b <= s

\* two of three sessions bounce: 66.7
C11_Witness ==
    /\ qry.endpoint = "summary"
    /\ qry.period = "7d"
    /\ Cardinality(SessionsOf(Kept("7d"))) = 3
    /\ Cardinality(BouncedOf(Kept("7d"))) = 2
    /\ Len(Kept("7d")) = 5
    /\ qry.body.bounceRate = 667

\* the number of events of a sequence about page p, and where p comes first
CountOf(evs, p) == Cardinality({i \in DOMAIN evs : evs[i].path = p})
FirstAt(evs, p) ==
    CHOOSE i \in DOMAIN evs :
       evs[i].path = p /\ \A j \in DOMAIN evs : evs[j].path = p => i <= j

\* the answer of top-pages is a ranking of the in-window pages, ties in the
\* order in which the pages first occur in the sequence log
RankedBy(log) ==
    LET body == qry.body
        kept == Kept(qry.period)
    IN /\ Len(body) <= 10
       /\ \A i, j \in DOMAIN body : i # j => body[i].path # body[j].path
       /\ \A i \in DOMAIN body : body[i].count = CountOf(kept, body[i].path)
       /\ \A i, j \in DOMAIN body : i < j => body[i].count >= body[j].count
       /\ \A k \in DOMAIN kept :
             (\A i \in DOMAIN body : body[i].path # kept[k].path)
                => \A i \in DOMAIN body : CountOf(kept, kept[k].path) <= body[i].count
       /\ \A i, j \in DOMAIN body :
             (i < j /\ body[i].count = body[j].count)
                => FirstAt(log, body[i].path) < FirstAt(log, body[j].path)

\* C12 as claimed: top-pages returns at most 10 entries with distinct paths,
\* each with the number of in-window events of its path, by non-increasing
\* count, no omitted path counting more than a returned one, and paths of
\* equal count in the order of their first occurrence in the event log.
C12_TopPagesLogOrder == qry.endpoint = "top-pages" => RankedBy(events)

\* C12 amended: the same, with paths of equal count in the order of their
\* first occurrence among the in-window, non-administrative events.
C12_TopPages == qry.endpoint = "top-pages" => RankedBy(Kept(qry.period))

\* twelve pages viewed once and the twelfth once more: it leads the ten
\* returned, the others follow in log order, two pages are left out
C12_Witness ==
    /\ qry.endpoint = "top-pages"
    /\ Cardinality({events[i].path : i \in DOMAIN events}) = 12
    /\ Len(qry.body) = 10
    /\ qry.body[1] = [path |-> PageNo(12), count |-> 2]
    /\ qry.body[2] = [path |-> PageNo(1), count |-> 1]
    /\ qry.body[10] = [path |-> PageNo(9), count |-> 1]

\* the classes of the sources and devices views, and what a view returns
\* for class c under field name (0 if the class is not returned)
Returned(field, c) ==
    LET at == {i \in DOMAIN qry.body : qry.body[i][field] = c}
    IN IF at = {} THEN 0 ELSE qry.body[CHOOSE i \in at : TRUE].count

\* a view by classes: every in-window event is counted in the class Class
\* gives it, each returned class once and with a positive count, the counts
\* summing to the pageViews of summary for the same period
ByClass(field, classes, Class(_)) ==
    LET kept == Kept(qry.period)
    IN /\ \A c \in classes :
             Returned(field, c) = Cardinality({i \in DOMAIN kept : Class(kept[i]) = c})
       /\ \A i \in DOMAIN qry.body :
             /\ qry.body[i][field] \in classes
             /\ qry.body[i].count > 0
             /\ \A j \in DOMAIN qry.body :
                   qry.body[j][field] = qry.body[i][field] => i = j
       /\ SumOf([i \in DOMAIN qry.body |-> qry.body[i].count])
             = Summary(events, qry.period, now).pageViews

\* the class of a referrer, as the specification words it
SourceClass(e) ==
    LET r == e.referrer
        Host(w) == UrlParses(r) /\ Includes(Hostname(r), w)
    IN IF r = <<>> THEN "Direct"
       ELSE IF Host(<<"g", "o", "o", "g", "l", "e">>) THEN "Search"
       ELSE IF \/ Host(<<"f", "a", "c", "e", "b", "o", "o", "k">>)
               \/ Host(<<"t", "w", "i", "t", "t", "e", "r">>)
               \/ Host(<<"i", "n", "s", "t", "a", "g", "r", "a", "m">>)
            THEN "Social"
       ELSE "Referral"

\* C13: sources puts every in-window event in exactly one of Direct, Search,
\* Social and Referral: an empty referrer is Direct, a URL whose hostname
\* contains "google" is Search, else one whose hostname contains facebook,
\* twitter or instagram is Social, anything else is Referral; the returned
\* counts sum to pageViews and no class is returned with count 0.
C13_SourceClasses ==
    qry.endpoint = "sources" =>
       ByClass("source", {"Direct", "Search", "Social", "Referral"}, SourceClass)

\* a search referrer and a host naming both twitter and google: Search, 2
C13_Witness ==
    /\ qry.endpoint = "sources"
    /\ qry.period = "7d"
    /\ Len(events) = 2
    /\ events[1].referrer = RefGoogle
    /\ events[2].referrer = RefBoth
    /\ qry.body = <<[source |-> "Search", count |-> 2]>>

\* the class of a device string, as the specification words it (the words
\* are looked for in any letter case)
DeviceClass(e) ==
    LET Has(w) == Includes(ToLowerCase(e.device), ToLowerCase(w))
    IN IF Has(<<"M", "o", "b", "i", "l", "e">>) \/ Has(<<"A", "n", "d", "r", "o", "i", "d">>)
          \/ Has(<<"i", "P", "h", "o", "n", "e">>)
       THEN "Mobile"
       ELSE IF Has(<<"T", "a", "b", "l", "e", "t">>) \/ Has(<<"i", "P", "a", "d">>)
       THEN "Tablet"
       ELSE "Desktop"

\* C14: devices counts every in-window event as Mobile if its device string
\* contains Mobile, Android or iPhone, else as Tablet if it contains Tablet
\* or iPad, else as Desktop (so "iPad Mobile" is Mobile), and the returned
\* counts sum to pageViews.
C14_DeviceClasses ==
    qry.endpoint = "devices" =>
       ByClass("device", {"Mobile", "Tablet", "Desktop"}, DeviceClass)

\* an iPad that also says Mobile, and a plain iPad: one Mobile, one Tablet
C14_Witness ==
    /\ qry.endpoint = "devices"
    /\ qry.period = "7d"
    /\ Len(events) = 2
    /\ events[1].device = UaPadMobile
    /\ events[2].device = UaPad
    /\ qry.body = <<[device |-> "Mobile", count |-> 1],
                    [device |-> "Tablet", count |-> 1]>>

\* C15: realtime returns min(20, number of stored events) entries: entry i is
\* the i-th event from the end of the log (its page and its time of day),
\* with location and duration the placeholder.
C15_RealtimeLast20 ==
    qry.endpoint = "realtime" =>
       LET n == Len(events)
           m == IF n < 20 THEN n ELSE 20
       IN /\ Len(qry.body) = m
          /\ \A i \in 1..m :
                /\ qry.body[i].page = events[n + 1 - i].path
                /\ qry.body[i].time = events[n + 1 - i].ts % DayMs
                /\ qry.body[i].location = Placeholder
                /\ qry.body[i].duration = Placeholder

\* a log of 51 events: the newest is reported first, the 20th newest last
C15_Witness ==
    /\ qry.endpoint = "realtime"
    /\ Len(events) = 51
    /\ Len(qry.body) = 20
    /\ qry.body[1].time = events[51].ts % DayMs
    /\ qry.body[20].time = events[32].ts % DayMs
    /\ qry.body[1].time # qry.body[20].time

\* the number of buckets the specification gives a period
BucketsOf(q) ==
    CASE q = "1d" -> 24 [] q = "7d" -> 7 [] q = "30d" -> 30 [] q = "90d" -> 12
      [] q = "1y" -> 12 [] OTHER -> 7

\* C16: timeseries returns as many labels as values: 24 for 1d (hour h
\* labelled h:00 and counting the in-window events of local hour h), 7 for
\* 7d and any unrecognised period, 30 for 30d, 12 for 90d and for 1y; the
\* day buckets are the consecutive calendar days that end today, oldest
\* first, each counting the in-window events of its day.
C16_TimeseriesBuckets ==
    qry.endpoint = "timeseries" =>
       LET n == BucketsOf(qry.period)
           kept == Kept(qry.period)
           today == now \div DayMs
       IN /\ Len(qry.body.labels) = n
          /\ Len(qry.body.values) = n
          /\ \A i \in 1..n :
                IF qry.period = "1d"
                THEN /\ qry.body.labels[i] = <<"h", i - 1>>
                     /\ qry.body.values[i] =
                           Cardinality({k \in DOMAIN kept : kept[k].ts % DayMs = i - 1})
                ELSE /\ qry.body.labels[i] = DayLabel(today - (n - i))
                     /\ qry.body.values[i] =
                           Cardinality({k \in DOMAIN kept :
                                           kept[k].ts \div DayMs = today - (n - i)})

\* 30 day buckets, two events today in the last, none in the others
C16_Witness ==
    /\ qry.endpoint = "timeseries"
    /\ qry.period = "30d"
    /\ Len(qry.body.values) = 30
    /\ qry.body.values[30] = 2
    /\ SumOf(qry.body.values) = 2

\* ---- the event log under track requests
\* request r was answered { ok: true, eventId }
Acked(r) ==
    /\ treq[r].pc = "done"
    /\ treq[r].resp.ok
    /\ ~ treq[r].resp.ignored

\* no two track requests have overlapped so far: a request is served in
\* slot 1 unless slot 1 is busy, so the other slots were never used
OneAtATime == \A s \in TReq : s # 1 => treq[s].pc = "idle"

\* v is a prefix of w
IsPrefix(v, w) == Len(v) <= Len(w) /\ SubSeq(w, 1, Len(v)) = v

\* C17: a track request with a non-administrative resolved path that no
\* other request overlaps and whose read and write succeed leaves the log it
\* read with exactly one event appended: the event has an id no earlier event
\* has, ts the current time, the type and path of the body ("pageview" and
\* "/" when absent), the body's sessionId or a generated one; the response is
\* {ok:true, eventId} with the event's id.
C17_TrackAppendsOne ==
    (/\ OneAtATime
     /\ treq[1].pc = "done"
     /\ ~ Administrative(FinalPath(treq[1].body))
     /\ treq[1].resp.status # 500)
    => LET e == treq[1].event
           b == treq[1].body
           before == treq[1].db
       IN /\ events = before \o <<e>>
          /\ \A i \in DOMAIN before : before[i].id # e.id
          /\ e.id > 0
          /\ e.ts = now
          /\ e.type = IF b.type = Undefined THEN Pageview ELSE b.type
          /\ (b.path = Undefined) => (e.path = PRoot)
          /\ (b.path \notin {Undefined, Null, <<>>}) => (e.path = b.path)
          /\ IF b.sessionId = Undefined
             THEN /\ e.sessionId[1] = "uuid"
                  /\ \A i \in DOMAIN before : before[i].sessionId # e.sessionId
             ELSE e.sessionId = b.sessionId
          /\ treq[1].resp = [NoTrackResp EXCEPT !.status = 200, !.ok = TRUE,
                                               !.eventId = e.id]

\* a second request, with an empty body, served after the first was answered
C17_Witness ==
    /\ OneAtATime
    /\ Acked(1)
    /\ treq[1].body = NoBody
    /\ Len(treq[1].db) = 1
    /\ Len(events) = 2
    /\ events[2].path = PRoot
    /\ events[2].type = Pageview

C19_AppendOnly == [][IsPrefix(events, events')]_vars

\* C19 amended: as long as no two track requests overlap, every step leaves
\* the log it found as a prefix of the log, and an acknowledged event is in
\* the log.
C19_AppendOnlyOneAtATime ==
    [][(OneAtATime /\ OneAtATime')
          => /\ IsPrefix(events, events')
             /\ Acked(1)' => \E i \in DOMAIN events' :
                                events'[i].id = treq'[1].resp.eventId]_vars

\* two requests served one after the other: the log grew twice
C19_Witness ==
    /\ OneAtATime
    /\ tracked = 2
    /\ Len(events) = 2
    /\ events[1].id < events[2].id
    /\ Acked(1)
    /\ treq[1].resp.eventId = events[2].id

\* ---- the media catalog under concurrent mutations
Records(db) == {db[i] : i \in DOMAIN db}

\* the document a mutation writes: the catalog it read, with its records
\* appended (records: those of the POST) or its record removed
Written(s, records) ==
    IF req[s].kind = "post" THEN req[s].db0 \o records
    ELSE Without(req[s].db0, FindIndex(req[s].db0, req[s].id))

\* C20: the write of a mutation replaces the catalog by the document made
\* from what that mutation read, whatever was written since (last writer
\* wins).  So when another upload was answered with records the writer had
\* not read, those records are not in the catalog after the write; and when
\* a DELETE was answered {ok:true} for a record the writer had read (and does
\* not itself delete), that record is in the catalog again.
C20_LostUpdate ==
    [][\A s \in Req :
          (req[s].pc = "write" /\ req'[s].pc # "write")
             => /\ mediaDb' = Written(s, req'[s].saved)
                /\ \A r \in Req \ {s} :
                      /\ (IsPost(r) /\ Records(req[r].saved) \cap Records(req[s].db0) = {})
                            => Records(req[r].saved) \cap Records(mediaDb') = {}
                      /\ (/\ IsDelete(r) /\ req[r].resp.status = 200
                          /\ req[r].item[1] \in Records(req[s].db0)
                          /\ ~ (req[s].kind = "delete" /\ req[s].id = req[r].id))
                            => req[r].item[1] \in Records(mediaDb')]_vars

\* a DELETE answered {ok:true} and an upload answered with its record, and
\* the deleted record is in the catalog
C20_Witness ==
    \E r, s \in Req :
       /\ IsDelete(r) /\ req[r].resp.status = 200
       /\ IsPost(s)
       /\ req[r].item[1] \in Records(req[s].db0)
       /\ req[r].item[1] \in Records(mediaDb)
       /\ Records(req[s].saved) \subseteq Records(mediaDb)

\* ---- what clients get to see of the catalog
\* the records request slot rq has sent to its client
Sent(rq) ==
    IF rq.pc = "done" /\ rq.resp.status = 200 /\ rq.kind \in {"post", "get"}
    THEN Records(rq.resp.body) ELSE {}

\* the records in the catalog or in a response, before and after a step
Known == Records(mediaDb) \cup UNION {Sent(req[r]) : r \in Req}
KnownNext == Records(mediaDb') \cup UNION {Sent(req'[r]) : r \in Req}

\* C21: a record becomes known (stored in the catalog or sent in a response)
\* only in the step in which an upload request, all of whose files multer had
\* stored before the handler read the catalog, writes the catalog and
\* answers; the record names one of those stored files, is in the catalog
\* that step writes and in the response that step sends.  Every other record
\* a step stores or sends was read from the catalog before.
C21_FileBeforeRecord ==
    [][\A rec \in KnownNext \ (Known \cup UNION {Records(req[r].items) : r \in Req}) :
          \E r \in Req :
             /\ req[r].kind = "post"
             /\ req[r].pc = "write"
             /\ req'[r].pc = "done"
             /\ Len(req[r].stored) = Len(req[r].files)
             /\ \E i \in DOMAIN req[r].stored : rec.storedName = req[r].stored[i]
             /\ rec \in Records(mediaDb')
             /\ rec \in Sent(req'[r])]_vars

\* an upload of two files was answered and a GET has returned its records,
\* whose files are on disk
C21_Witness ==
    \E r, g \in Req :
       /\ IsPost(r)
       /\ Len(req[r].saved) = 2
       /\ IsGet(g)
       /\ Records(req[r].saved) \subseteq Sent(req[g])
       /\ \A rec \in Sent(req[g]) : rec.storedName \in disk

\* ---- the order of the event log
Sorted(evs) == \A i \in DOMAIN evs : i > 1 => evs[i - 1].ts <= evs[i].ts

\* C22 as claimed: in every reachable state, several track requests in flight
\* at once included, each event of the log has a ts at least the ts of the
\* event stored before it.
C22_TsNonDecreasing == Sorted(events)

\* C22 amended: as long as no two track requests overlap, each event of the
\* log has a ts at least the ts of the event stored before it.
C22_TsNonDecreasingOneAtATime == OneAtATime => Sorted(events)

\* two requests served one after the other, the clock having advanced
C22_Witness ==
    /\ OneAtATime
    /\ Len(events) = 2
    /\ events[1].ts < events[2].ts
    /\ events[2].ts = now

\* ---- timeseries against summary
\* C27: for period 1d the values of timeseries sum to the pageViews summary
\* returns for 1d, every in-window event being counted in the one bucket of
\* its hour; for any other period the values sum to no more than pageViews:
\* they count exactly the in-window events whose calendar day is one of the
\* bucket days (the days that end today, as many as there are buckets), so
\* an in-window event of another day is counted in no bucket.
C27_TimeseriesSum ==
    qry.endpoint = "timeseries" =>
       LET values == qry.body.values
           pageViews == Summary(events, qry.period, now).pageViews
           kept == Kept(qry.period)
           today == now \div DayMs
           days == {today - k : k \in 0..(Len(values) - 1)}
       IN IF qry.period = "1d"
          THEN /\ SumOf(values) = pageViews
               /\ pageViews = Len(kept)
               /\ \A k \in DOMAIN kept :
                     Cardinality({i \in DOMAIN values :
                                     i - 1 = kept[k].ts % DayMs /\ values[i] >= 1}) = 1
          ELSE /\ SumOf(values) <= pageViews
               /\ SumOf(values) =
                     Cardinality({k \in DOMAIN kept : kept[k].ts \div DayMs \in days})
               /\ \A k \in DOMAIN kept :
                     kept[k].ts \div DayMs \notin days
                        => \A i \in DOMAIN values :
                              values[i] = Cardinality({j \in DOMAIN kept \ {k} :
                                  kept[j].ts \div DayMs = today - (Len(values) - i)})

\* an event a month old is inside the 90d window and in none of 12 buckets
C27_Witness ==
    /\ qry.endpoint = "timeseries"
    /\ qry.period = "90d"
    /\ Len(qry.body.values) = 12
    /\ Summary(events, "90d", now).pageViews = 2
    /\ SumOf(qry.body.values) = 1

\* ---- the path a track request resolves to
\* the resolved path as the specification words it: path when supplied and
\* truthy, "/" when path is omitted, page (or "/" when there is no page) only
\* when path is supplied but empty or null
Resolved(b) ==
    IF b.path = Undefined THEN PRoot
    ELSE IF b.path \notin {Null, <<>>} THEN b.path
    ELSE IF b.page \notin {Undefined, Null, <<>>} THEN b.page
    ELSE PRoot

\* C28: a track request is ignored exactly when its resolved path is
\* administrative, and otherwise its event carries the resolved path; so a
\* request without path and with an administrative page is not ignored: its
\* event has path "/", and that is the event its write stores.
C28_ResolvedPath ==
    /\ [](\A r \in TReq :
            treq[r].pc # "idle"
               => /\ treq[r].resp.ignored <=> Administrative(Resolved(treq[r].body))
                  /\ ~ Administrative(Resolved(treq[r].body))
                        => treq[r].event.path = Resolved(treq[r].body)
                  /\ (treq[r].body.path = Undefined /\ treq[r].body.page = PAdmin)
                        => /\ ~ treq[r].resp.ignored
                           /\ treq[r].event.path = PRoot)
    /\ [][\A r \in TReq :
            (treq[r].pc = "write" /\ treq'[r].resp.ok)
               => /\ events' # <<>>
                  /\ events'[Len(events')].path = Resolved(treq[r].body)]_vars

\* no path, the page "/admin": acknowledged and stored with path "/"
C28_Witness ==
    \E r \in TReq :
       /\ Acked(r)
       /\ treq[r].body.path = Undefined
       /\ treq[r].body.page = PAdmin
       /\ \E i \in DOMAIN events :
             /\ events[i].id = treq[r].resp.eventId
             /\ events[i].path = PRoot

\* ---- administrative events in a stored log
\* the log without its administrative-path events
Public == LET Open(e) == ~ Administrative(e.path) IN SelectSeq(events, Open)

\* C29: realtime reports every event among the last 20 of the log, be it on
\* an administrative path or older than every window, while each windowed
\* route answers what it answers for the log without its administrative
\* events, counts none of them and (top-pages) names no administrative path.
C29_RealtimeUnfiltered ==
    /\ qry.endpoint = "realtime" =>
          \A i \in DOMAIN events :
             (i > Len(events) - 20 /\ Administrative(events[i].path))
                => /\ Len(events) + 1 - i \in DOMAIN qry.body
                   /\ qry.body[Len(events) + 1 - i].page = events[i].path
    /\ qry.endpoint \in Windowed =>
          /\ qry.body = Answer(qry.endpoint, Public, qry.period)
          /\ Counted(qry.endpoint, qry.body) <= Len(Public)
    /\ qry.endpoint = "top-pages" =>
          \A i \in DOMAIN qry.body : ~ Administrative(qry.body[i].path)

\* an administrative event more than a year old, alone in the log, is what
\* realtime returns
C29_Witness ==
    /\ qry.endpoint = "realtime"
    /\ Len(events) = 1
    /\ events[1].path = PAdminDash
    /\ events[1].ts < now - 365 * DayMs
    /\ Len(qry.body) = 1
    /\ qry.body[1].page = PAdminDash

\* ---- login attempts
\* a checkRateLimit(u) call has just returned or thrown
Checked(u) ==
    /\ out'.op = "checkRateLimit"
    /\ out'.id = u
    /\ now' = now
    /\ auth' = auth

\* u is locked out at t: five or more failures recorded since the last
\* recorded success, the latest less than the lockout duration ago
LockedOut(u, t) ==
    /\ hist[u].fails >= 5
    /\ t - hist[u].last < 15

\* C23: checkRateLimit(u) throws "Too many login attempts" exactly when at
\* least 5 failures were recorded for u since the last recorded success and
\* the latest of them is within the 15 minutes of the lockout; otherwise it
\* returns true.
C23_RateLimit ==
    [][\A u \in Idents :
         Checked(u) =>
           /\ out'.errors = <<TooManyAttempts>> <=> LockedOut(u, now)
           /\ out'.truth <=> ~LockedOut(u, now)]_vars

C23_Witness ==
    /\ out.op = "checkRateLimit"
    /\ out.errors = <<TooManyAttempts>>
    /\ hist[out.id].fails >= 5
    /\ now - hist[out.id].last < 15

\* C24: the 6th and any later authenticate(u, wrongPassword) call rejected
\* in a row is rejected with the too-many-attempts error.
C24_LoginRateLimited ==
    \A u \in Idents :
      (/\ out.op = "authenticate"
       /\ out.id = u
       /\ out.errors # <<>>
       /\ hist[u].rejected >= 6)
      => out.errors = <<TooManyAttempts>>

C24_Witness ==
    /\ out.op = "authenticate"
    /\ out.id = TestUser
    /\ out.errors # <<>>
    /\ hist[TestUser].rejected >= 6

\* a recordLoginAttempt(u, false) call has just returned
RecordedFailure(u) == hist'[u].fails = hist[u].fails + 1

\* C30: once 15 minutes have passed since the last failure checkRateLimit(u)
\* returns true and leaves the stored counter as it is; a failure recorded
\* after five or more earlier ones were locked out and released makes the
\* stored count exceed 5 with lastAttempt at the present, and
\* checkRateLimit(u) throws again while that failure is the latest.
C30_LockoutReturns ==
    [][\A u \in Idents :
         /\ (Checked(u) /\ now - hist[u].last >= 15) => out'.truth
         /\ Checked(u) => attempts' = attempts
         /\ (RecordedFailure(u) /\ hist[u].fails >= 5 /\ now - hist[u].last >= 15) =>
              /\ attempts'[u] # <<>>
              /\ attempts'[u][1].count = hist[u].fails + 1
              /\ attempts'[u][1].lastAttempt = now
         /\ (Checked(u) /\ hist[u].lapsed /\ now - hist[u].last < 15) =>
              out'.errors = <<TooManyAttempts>>]_vars

C30_Witness ==
    /\ out.op = "checkRateLimit"
    /\ out.errors = <<TooManyAttempts>>
    /\ hist[out.id].lapsed
    /\ hist[out.id].fails = 6
    /\ attempts[out.id] = <<[count |-> 6, lastAttempt |-> hist[out.id].last]>>

\* ---- session
\* isAuthenticated() has just run, alone or inside getSession() or
\* checkAuthStatus(), the one of the constructor included
RanIsAuthenticated ==
    /\ now' = now
    /\ \/ /\ out'.op \in {"isAuthenticated", "getSession", "checkAuthStatus"}
          /\ auth' = auth
       \/ /\ out'.op = "constructor"
          /\ auth'.call = <<>>

\* the stored session decrypts under the key of the instance that looks at
\* it, is not expired and is complete
Sound ==
    /\ storage.session # <<>>
    /\ storage.session[1].key = auth'.encryptionKey
    /\ now < storage.session[1].data.expiresAt
    /\ storage.session[1].data.sessionId # ""
    /\ storage.session[1].data.userId # ""

\* nothing of a session is left in localStorage or sessionStorage
Cleared(st) ==
    /\ st.session = <<>>
    /\ ~st.active
    /\ st.csrf_token = <<>>

\* C25: isAuthenticated() is true only when the active flag is set and the
\* stored session decrypts, is not expired and has sessionId and userId;
\* finding, with the active flag set, a stored session that is not so, it
\* logs out; after a logout isAuthenticated() is false and getSession() is
\* null, and only a successful authenticate stores a session again.
C25_SessionValidity ==
    [][/\ (RanIsAuthenticated /\ (out'.truth \/ out'.session # <<>>))
            => (storage.active /\ Sound)
       /\ (RanIsAuthenticated /\ storage.active /\ storage.session # <<>> /\ ~Sound)
            => Cleared(storage')
       /\ out'.op = "logout" => Cleared(storage')
       /\ (RanIsAuthenticated /\ Cleared(storage))
            => (~out'.truth /\ out'.session = <<>> /\ Cleared(storage'))
       /\ (storage.session = <<>> /\ storage'.session # <<>>)
            => (out'.op = "authenticate" /\ out'.truth)]_vars

C25_Witness ==
    /\ out.op = "isAuthenticated"
    /\ ~out.truth
    /\ Cleared(storage)
    /\ storage.perankh_key = <<>>
    /\ now >= Now0 + sessionTimeout

\* ---- header
\* C26: after destroy() an authStatusChanged event no longer changes the
\* header's isAuthenticated and userSession, and an attached header has
\* exactly one authStatusChanged listener registered however often update()
\* was called.
C26_HeaderCleanup ==
    [][/\ (header.destroyed /\ header'.destroyed) =>
            /\ header'.isAuthenticated = header.isAuthenticated
            /\ header'.userSession = header.userSession
       /\ header'.attached => Len(listeners') = 1]_vars

C26_Witness ==
    /\ header.destroyed
    /\ header.isAuthenticated
    /\ Len(listeners) > 1

====
